---- MODULE Spec2Model ----
(***************************************************************************)
(* Model of tools/import_qso.py: the ADIF parser parse_adif and the batch  *)
(* loader main.  A character is its Unicode code point and text is a       *)
(* sequence of code points; a parsed value is a record tagged with its     *)
(* Python type.                                                            *)
(***************************************************************************)
EXTENDS Integers, Sequences, FiniteSets, TLC

VARIABLES adif, pc, content, records, ri, record, matches, mi, doc, yielded, tick,
          parse_ok, mpc, main_records, total_records, i, inserted, store,
          calls, out, opened, closed

pvars == <<adif, pc, content, records, ri, record, matches, mi, doc, yielded, tick>>
mvars == <<parse_ok, mpc, main_records, total_records, i, inserted, store,
           calls, out, opened, closed>>
vars == <<pvars, mvars>>

-----------------------------------------------------------------------------
(* Bounds of the explored inputs.                                          *)
MaxFields == 2
MaxSegs == 3
MaxTotal == 250

-----------------------------------------------------------------------------
(* Characters.  Printable lists the characters of code points 32..95 and   *)
(* 97..126, so that text can be written with its letters:                  *)
(* Txt(<<"a","b">>) = <<97, 98>>.                                           *)
Printable ==
    <<" ", "!", "\"", "#", "$", "%", "&", "'", "(", ")", "*", "+", ",", "-", ".", "/", "0",
      "1", "2", "3", "4", "5", "6", "7", "8", "9", ":", ";", "<", "=", ">", "?", "@", "A", "B",
      "C", "D", "E", "F", "G", "H", "I", "J", "K", "L", "M", "N", "O", "P", "Q", "R", "S", "T",
      "U", "V", "W", "X", "Y", "Z", "[", "\\", "]", "^", "_", "a", "b", "c", "d", "e",
      "f", "g", "h", "i", "j", "k", "l", "m", "n", "o", "p", "q", "r", "s", "t", "u", "v", "w",
      "x", "y", "z", "{", "|", "}", "~">>

ord(c) == IF c = "\t" THEN 9
          ELSE IF c = "\n" THEN 10
          ELSE IF c = "\f" THEN 12
          ELSE IF c = "\r" THEN 13
          ELSE LET k == CHOOSE x \in 1..Len(Printable) : Printable[x] = c
               IN IF k <= 64 THEN 31 + k ELSE 32 + k
Txt(s) == [k \in 1..Len(s) |-> ord(s[k])]

LF == ord("\n")
CR == ord("\r")
Space == ord(" ")
Lt == ord("<")
Gt == ord(">")
Colon == ord(":")
Dot == ord(".")
Underscore == ord("_")
Plus == ord("+")
Minus == ord("-")
Zero == ord("0")

(* \d of the patterns, and the digits int(), float() and strptime read:     *)
(* the Unicode decimal digits as ranges <<first, last>> of code points,     *)
(* each range made of whole runs 0..9                                       *)
DecimalRanges ==
    <<<<48, 57>>, <<1632, 1641>>, <<1776, 1785>>, <<1984, 1993>>, <<2406, 2415>>, <<2534, 2543>>,
      <<2662, 2671>>, <<2790, 2799>>, <<2918, 2927>>, <<3046, 3055>>, <<3174, 3183>>,
      <<3302, 3311>>, <<3430, 3439>>, <<3558, 3567>>, <<3664, 3673>>, <<3792, 3801>>,
      <<3872, 3881>>, <<4160, 4169>>, <<4240, 4249>>, <<6112, 6121>>, <<6160, 6169>>,
      <<6470, 6479>>, <<6608, 6617>>, <<6784, 6793>>, <<6800, 6809>>, <<6992, 7001>>,
      <<7088, 7097>>, <<7232, 7241>>, <<7248, 7257>>, <<42528, 42537>>, <<43216, 43225>>,
      <<43264, 43273>>, <<43472, 43481>>, <<43504, 43513>>, <<43600, 43609>>, <<44016, 44025>>,
      <<65296, 65305>>, <<66720, 66729>>, <<68912, 68921>>, <<69734, 69743>>, <<69872, 69881>>,
      <<69942, 69951>>, <<70096, 70105>>, <<70384, 70393>>, <<70736, 70745>>, <<70864, 70873>>,
      <<71248, 71257>>, <<71360, 71369>>, <<71472, 71481>>, <<71904, 71913>>, <<72016, 72025>>,
      <<72784, 72793>>, <<73040, 73049>>, <<73120, 73129>>, <<92768, 92777>>, <<92864, 92873>>,
      <<93008, 93017>>, <<120782, 120831>>, <<123200, 123209>>, <<123632, 123641>>,
      <<125264, 125273>>, <<130032, 130041>>>>

(* \w of field_pattern: the alphanumeric characters and the underscore, as  *)
(* ranges <<first, last>> of code points                                    *)
WordRanges ==
    <<<<48, 57>>, <<65, 90>>, <<95, 95>>, <<97, 122>>, <<170, 170>>, <<178, 179>>, <<181, 181>>,
      <<185, 186>>, <<188, 190>>, <<192, 214>>, <<216, 246>>, <<248, 705>>, <<710, 721>>,
      <<736, 740>>, <<748, 748>>, <<750, 750>>, <<880, 884>>, <<886, 887>>, <<890, 893>>,
      <<895, 895>>, <<902, 902>>, <<904, 906>>, <<908, 908>>, <<910, 929>>, <<931, 1013>>,
      <<1015, 1153>>, <<1162, 1327>>, <<1329, 1366>>, <<1369, 1369>>, <<1376, 1416>>,
      <<1488, 1514>>, <<1519, 1522>>, <<1568, 1610>>, <<1632, 1641>>, <<1646, 1647>>,
      <<1649, 1747>>, <<1749, 1749>>, <<1765, 1766>>, <<1774, 1788>>, <<1791, 1791>>,
      <<1808, 1808>>, <<1810, 1839>>, <<1869, 1957>>, <<1969, 1969>>, <<1984, 2026>>,
      <<2036, 2037>>, <<2042, 2042>>, <<2048, 2069>>, <<2074, 2074>>, <<2084, 2084>>,
      <<2088, 2088>>, <<2112, 2136>>, <<2144, 2154>>, <<2160, 2183>>, <<2185, 2190>>,
      <<2208, 2249>>, <<2308, 2361>>, <<2365, 2365>>, <<2384, 2384>>, <<2392, 2401>>,
      <<2406, 2415>>, <<2417, 2432>>, <<2437, 2444>>, <<2447, 2448>>, <<2451, 2472>>,
      <<2474, 2480>>, <<2482, 2482>>, <<2486, 2489>>, <<2493, 2493>>, <<2510, 2510>>,
      <<2524, 2525>>, <<2527, 2529>>, <<2534, 2545>>, <<2548, 2553>>, <<2556, 2556>>,
      <<2565, 2570>>, <<2575, 2576>>, <<2579, 2600>>, <<2602, 2608>>, <<2610, 2611>>,
      <<2613, 2614>>, <<2616, 2617>>, <<2649, 2652>>, <<2654, 2654>>, <<2662, 2671>>,
      <<2674, 2676>>, <<2693, 2701>>, <<2703, 2705>>, <<2707, 2728>>, <<2730, 2736>>,
      <<2738, 2739>>, <<2741, 2745>>, <<2749, 2749>>, <<2768, 2768>>, <<2784, 2785>>,
      <<2790, 2799>>, <<2809, 2809>>, <<2821, 2828>>, <<2831, 2832>>, <<2835, 2856>>,
      <<2858, 2864>>, <<2866, 2867>>, <<2869, 2873>>, <<2877, 2877>>, <<2908, 2909>>,
      <<2911, 2913>>, <<2918, 2927>>, <<2929, 2935>>, <<2947, 2947>>, <<2949, 2954>>,
      <<2958, 2960>>, <<2962, 2965>>, <<2969, 2970>>, <<2972, 2972>>, <<2974, 2975>>,
      <<2979, 2980>>, <<2984, 2986>>, <<2990, 3001>>, <<3024, 3024>>, <<3046, 3058>>,
      <<3077, 3084>>, <<3086, 3088>>, <<3090, 3112>>, <<3114, 3129>>, <<3133, 3133>>,
      <<3160, 3162>>, <<3165, 3165>>, <<3168, 3169>>, <<3174, 3183>>, <<3192, 3198>>,
      <<3200, 3200>>, <<3205, 3212>>, <<3214, 3216>>, <<3218, 3240>>, <<3242, 3251>>,
      <<3253, 3257>>, <<3261, 3261>>, <<3293, 3294>>, <<3296, 3297>>, <<3302, 3311>>,
      <<3313, 3314>>, <<3332, 3340>>, <<3342, 3344>>, <<3346, 3386>>, <<3389, 3389>>,
      <<3406, 3406>>, <<3412, 3414>>, <<3416, 3425>>, <<3430, 3448>>, <<3450, 3455>>,
      <<3461, 3478>>, <<3482, 3505>>, <<3507, 3515>>, <<3517, 3517>>, <<3520, 3526>>,
      <<3558, 3567>>, <<3585, 3632>>, <<3634, 3635>>, <<3648, 3654>>, <<3664, 3673>>,
      <<3713, 3714>>, <<3716, 3716>>, <<3718, 3722>>, <<3724, 3747>>, <<3749, 3749>>,
      <<3751, 3760>>, <<3762, 3763>>, <<3773, 3773>>, <<3776, 3780>>, <<3782, 3782>>,
      <<3792, 3801>>, <<3804, 3807>>, <<3840, 3840>>, <<3872, 3891>>, <<3904, 3911>>,
      <<3913, 3948>>, <<3976, 3980>>, <<4096, 4138>>, <<4159, 4169>>, <<4176, 4181>>,
      <<4186, 4189>>, <<4193, 4193>>, <<4197, 4198>>, <<4206, 4208>>, <<4213, 4225>>,
      <<4238, 4238>>, <<4240, 4249>>, <<4256, 4293>>, <<4295, 4295>>, <<4301, 4301>>,
      <<4304, 4346>>, <<4348, 4680>>, <<4682, 4685>>, <<4688, 4694>>, <<4696, 4696>>,
      <<4698, 4701>>, <<4704, 4744>>, <<4746, 4749>>, <<4752, 4784>>, <<4786, 4789>>,
      <<4792, 4798>>, <<4800, 4800>>, <<4802, 4805>>, <<4808, 4822>>, <<4824, 4880>>,
      <<4882, 4885>>, <<4888, 4954>>, <<4969, 4988>>, <<4992, 5007>>, <<5024, 5109>>,
      <<5112, 5117>>, <<5121, 5740>>, <<5743, 5759>>, <<5761, 5786>>, <<5792, 5866>>,
      <<5870, 5880>>, <<5888, 5905>>, <<5919, 5937>>, <<5952, 5969>>, <<5984, 5996>>,
      <<5998, 6000>>, <<6016, 6067>>, <<6103, 6103>>, <<6108, 6108>>, <<6112, 6121>>,
      <<6128, 6137>>, <<6160, 6169>>, <<6176, 6264>>, <<6272, 6276>>, <<6279, 6312>>,
      <<6314, 6314>>, <<6320, 6389>>, <<6400, 6430>>, <<6470, 6509>>, <<6512, 6516>>,
      <<6528, 6571>>, <<6576, 6601>>, <<6608, 6618>>, <<6656, 6678>>, <<6688, 6740>>,
      <<6784, 6793>>, <<6800, 6809>>, <<6823, 6823>>, <<6917, 6963>>, <<6981, 6988>>,
      <<6992, 7001>>, <<7043, 7072>>, <<7086, 7141>>, <<7168, 7203>>, <<7232, 7241>>,
      <<7245, 7293>>, <<7296, 7304>>, <<7312, 7354>>, <<7357, 7359>>, <<7401, 7404>>,
      <<7406, 7411>>, <<7413, 7414>>, <<7418, 7418>>, <<7424, 7615>>, <<7680, 7957>>,
      <<7960, 7965>>, <<7968, 8005>>, <<8008, 8013>>, <<8016, 8023>>, <<8025, 8025>>,
      <<8027, 8027>>, <<8029, 8029>>, <<8031, 8061>>, <<8064, 8116>>, <<8118, 8124>>,
      <<8126, 8126>>, <<8130, 8132>>, <<8134, 8140>>, <<8144, 8147>>, <<8150, 8155>>,
      <<8160, 8172>>, <<8178, 8180>>, <<8182, 8188>>, <<8304, 8305>>, <<8308, 8313>>,
      <<8319, 8329>>, <<8336, 8348>>, <<8450, 8450>>, <<8455, 8455>>, <<8458, 8467>>,
      <<8469, 8469>>, <<8473, 8477>>, <<8484, 8484>>, <<8486, 8486>>, <<8488, 8488>>,
      <<8490, 8493>>, <<8495, 8505>>, <<8508, 8511>>, <<8517, 8521>>, <<8526, 8526>>,
      <<8528, 8585>>, <<9312, 9371>>, <<9450, 9471>>, <<10102, 10131>>, <<11264, 11492>>,
      <<11499, 11502>>, <<11506, 11507>>, <<11517, 11517>>, <<11520, 11557>>, <<11559, 11559>>,
      <<11565, 11565>>, <<11568, 11623>>, <<11631, 11631>>, <<11648, 11670>>, <<11680, 11686>>,
      <<11688, 11694>>, <<11696, 11702>>, <<11704, 11710>>, <<11712, 11718>>, <<11720, 11726>>,
      <<11728, 11734>>, <<11736, 11742>>, <<11823, 11823>>, <<12293, 12295>>, <<12321, 12329>>,
      <<12337, 12341>>, <<12344, 12348>>, <<12353, 12438>>, <<12445, 12447>>, <<12449, 12538>>,
      <<12540, 12543>>, <<12549, 12591>>, <<12593, 12686>>, <<12690, 12693>>, <<12704, 12735>>,
      <<12784, 12799>>, <<12832, 12841>>, <<12872, 12879>>, <<12881, 12895>>, <<12928, 12937>>,
      <<12977, 12991>>, <<13312, 19903>>, <<19968, 42124>>, <<42192, 42237>>, <<42240, 42508>>,
      <<42512, 42539>>, <<42560, 42606>>, <<42623, 42653>>, <<42656, 42735>>, <<42775, 42783>>,
      <<42786, 42888>>, <<42891, 42954>>, <<42960, 42961>>, <<42963, 42963>>, <<42965, 42969>>,
      <<42994, 43009>>, <<43011, 43013>>, <<43015, 43018>>, <<43020, 43042>>, <<43056, 43061>>,
      <<43072, 43123>>, <<43138, 43187>>, <<43216, 43225>>, <<43250, 43255>>, <<43259, 43259>>,
      <<43261, 43262>>, <<43264, 43301>>, <<43312, 43334>>, <<43360, 43388>>, <<43396, 43442>>,
      <<43471, 43481>>, <<43488, 43492>>, <<43494, 43518>>, <<43520, 43560>>, <<43584, 43586>>,
      <<43588, 43595>>, <<43600, 43609>>, <<43616, 43638>>, <<43642, 43642>>, <<43646, 43695>>,
      <<43697, 43697>>, <<43701, 43702>>, <<43705, 43709>>, <<43712, 43712>>, <<43714, 43714>>,
      <<43739, 43741>>, <<43744, 43754>>, <<43762, 43764>>, <<43777, 43782>>, <<43785, 43790>>,
      <<43793, 43798>>, <<43808, 43814>>, <<43816, 43822>>, <<43824, 43866>>, <<43868, 43881>>,
      <<43888, 44002>>, <<44016, 44025>>, <<44032, 55203>>, <<55216, 55238>>, <<55243, 55291>>,
      <<63744, 64109>>, <<64112, 64217>>, <<64256, 64262>>, <<64275, 64279>>, <<64285, 64285>>,
      <<64287, 64296>>, <<64298, 64310>>, <<64312, 64316>>, <<64318, 64318>>, <<64320, 64321>>,
      <<64323, 64324>>, <<64326, 64433>>, <<64467, 64829>>, <<64848, 64911>>, <<64914, 64967>>,
      <<65008, 65019>>, <<65136, 65140>>, <<65142, 65276>>, <<65296, 65305>>, <<65313, 65338>>,
      <<65345, 65370>>, <<65382, 65470>>, <<65474, 65479>>, <<65482, 65487>>, <<65490, 65495>>,
      <<65498, 65500>>, <<65536, 65547>>, <<65549, 65574>>, <<65576, 65594>>, <<65596, 65597>>,
      <<65599, 65613>>, <<65616, 65629>>, <<65664, 65786>>, <<65799, 65843>>, <<65856, 65912>>,
      <<65930, 65931>>, <<66176, 66204>>, <<66208, 66256>>, <<66273, 66299>>, <<66304, 66339>>,
      <<66349, 66378>>, <<66384, 66421>>, <<66432, 66461>>, <<66464, 66499>>, <<66504, 66511>>,
      <<66513, 66517>>, <<66560, 66717>>, <<66720, 66729>>, <<66736, 66771>>, <<66776, 66811>>,
      <<66816, 66855>>, <<66864, 66915>>, <<66928, 66938>>, <<66940, 66954>>, <<66956, 66962>>,
      <<66964, 66965>>, <<66967, 66977>>, <<66979, 66993>>, <<66995, 67001>>, <<67003, 67004>>,
      <<67072, 67382>>, <<67392, 67413>>, <<67424, 67431>>, <<67456, 67461>>, <<67463, 67504>>,
      <<67506, 67514>>, <<67584, 67589>>, <<67592, 67592>>, <<67594, 67637>>, <<67639, 67640>>,
      <<67644, 67644>>, <<67647, 67669>>, <<67672, 67702>>, <<67705, 67742>>, <<67751, 67759>>,
      <<67808, 67826>>, <<67828, 67829>>, <<67835, 67867>>, <<67872, 67897>>, <<67968, 68023>>,
      <<68028, 68047>>, <<68050, 68096>>, <<68112, 68115>>, <<68117, 68119>>, <<68121, 68149>>,
      <<68160, 68168>>, <<68192, 68222>>, <<68224, 68255>>, <<68288, 68295>>, <<68297, 68324>>,
      <<68331, 68335>>, <<68352, 68405>>, <<68416, 68437>>, <<68440, 68466>>, <<68472, 68497>>,
      <<68521, 68527>>, <<68608, 68680>>, <<68736, 68786>>, <<68800, 68850>>, <<68858, 68899>>,
      <<68912, 68921>>, <<69216, 69246>>, <<69248, 69289>>, <<69296, 69297>>, <<69376, 69415>>,
      <<69424, 69445>>, <<69457, 69460>>, <<69488, 69505>>, <<69552, 69579>>, <<69600, 69622>>,
      <<69635, 69687>>, <<69714, 69743>>, <<69745, 69746>>, <<69749, 69749>>, <<69763, 69807>>,
      <<69840, 69864>>, <<69872, 69881>>, <<69891, 69926>>, <<69942, 69951>>, <<69956, 69956>>,
      <<69959, 69959>>, <<69968, 70002>>, <<70006, 70006>>, <<70019, 70066>>, <<70081, 70084>>,
      <<70096, 70106>>, <<70108, 70108>>, <<70113, 70132>>, <<70144, 70161>>, <<70163, 70187>>,
      <<70272, 70278>>, <<70280, 70280>>, <<70282, 70285>>, <<70287, 70301>>, <<70303, 70312>>,
      <<70320, 70366>>, <<70384, 70393>>, <<70405, 70412>>, <<70415, 70416>>, <<70419, 70440>>,
      <<70442, 70448>>, <<70450, 70451>>, <<70453, 70457>>, <<70461, 70461>>, <<70480, 70480>>,
      <<70493, 70497>>, <<70656, 70708>>, <<70727, 70730>>, <<70736, 70745>>, <<70751, 70753>>,
      <<70784, 70831>>, <<70852, 70853>>, <<70855, 70855>>, <<70864, 70873>>, <<71040, 71086>>,
      <<71128, 71131>>, <<71168, 71215>>, <<71236, 71236>>, <<71248, 71257>>, <<71296, 71338>>,
      <<71352, 71352>>, <<71360, 71369>>, <<71424, 71450>>, <<71472, 71483>>, <<71488, 71494>>,
      <<71680, 71723>>, <<71840, 71922>>, <<71935, 71942>>, <<71945, 71945>>, <<71948, 71955>>,
      <<71957, 71958>>, <<71960, 71983>>, <<71999, 71999>>, <<72001, 72001>>, <<72016, 72025>>,
      <<72096, 72103>>, <<72106, 72144>>, <<72161, 72161>>, <<72163, 72163>>, <<72192, 72192>>,
      <<72203, 72242>>, <<72250, 72250>>, <<72272, 72272>>, <<72284, 72329>>, <<72349, 72349>>,
      <<72368, 72440>>, <<72704, 72712>>, <<72714, 72750>>, <<72768, 72768>>, <<72784, 72812>>,
      <<72818, 72847>>, <<72960, 72966>>, <<72968, 72969>>, <<72971, 73008>>, <<73030, 73030>>,
      <<73040, 73049>>, <<73056, 73061>>, <<73063, 73064>>, <<73066, 73097>>, <<73112, 73112>>,
      <<73120, 73129>>, <<73440, 73458>>, <<73648, 73648>>, <<73664, 73684>>, <<73728, 74649>>,
      <<74752, 74862>>, <<74880, 75075>>, <<77712, 77808>>, <<77824, 78894>>, <<82944, 83526>>,
      <<92160, 92728>>, <<92736, 92766>>, <<92768, 92777>>, <<92784, 92862>>, <<92864, 92873>>,
      <<92880, 92909>>, <<92928, 92975>>, <<92992, 92995>>, <<93008, 93017>>, <<93019, 93025>>,
      <<93027, 93047>>, <<93053, 93071>>, <<93760, 93846>>, <<93952, 94026>>, <<94032, 94032>>,
      <<94099, 94111>>, <<94176, 94177>>, <<94179, 94179>>, <<94208, 100343>>,
      <<100352, 101589>>, <<101632, 101640>>, <<110576, 110579>>, <<110581, 110587>>,
      <<110589, 110590>>, <<110592, 110882>>, <<110928, 110930>>, <<110948, 110951>>,
      <<110960, 111355>>, <<113664, 113770>>, <<113776, 113788>>, <<113792, 113800>>,
      <<113808, 113817>>, <<119520, 119539>>, <<119648, 119672>>, <<119808, 119892>>,
      <<119894, 119964>>, <<119966, 119967>>, <<119970, 119970>>, <<119973, 119974>>,
      <<119977, 119980>>, <<119982, 119993>>, <<119995, 119995>>, <<119997, 120003>>,
      <<120005, 120069>>, <<120071, 120074>>, <<120077, 120084>>, <<120086, 120092>>,
      <<120094, 120121>>, <<120123, 120126>>, <<120128, 120132>>, <<120134, 120134>>,
      <<120138, 120144>>, <<120146, 120485>>, <<120488, 120512>>, <<120514, 120538>>,
      <<120540, 120570>>, <<120572, 120596>>, <<120598, 120628>>, <<120630, 120654>>,
      <<120656, 120686>>, <<120688, 120712>>, <<120714, 120744>>, <<120746, 120770>>,
      <<120772, 120779>>, <<120782, 120831>>, <<122624, 122654>>, <<123136, 123180>>,
      <<123191, 123197>>, <<123200, 123209>>, <<123214, 123214>>, <<123536, 123565>>,
      <<123584, 123627>>, <<123632, 123641>>, <<124896, 124902>>, <<124904, 124907>>,
      <<124909, 124910>>, <<124912, 124926>>, <<124928, 125124>>, <<125127, 125135>>,
      <<125184, 125251>>, <<125259, 125259>>, <<125264, 125273>>, <<126065, 126123>>,
      <<126125, 126127>>, <<126129, 126132>>, <<126209, 126253>>, <<126255, 126269>>,
      <<126464, 126467>>, <<126469, 126495>>, <<126497, 126498>>, <<126500, 126500>>,
      <<126503, 126503>>, <<126505, 126514>>, <<126516, 126519>>, <<126521, 126521>>,
      <<126523, 126523>>, <<126530, 126530>>, <<126535, 126535>>, <<126537, 126537>>,
      <<126539, 126539>>, <<126541, 126543>>, <<126545, 126546>>, <<126548, 126548>>,
      <<126551, 126551>>, <<126553, 126553>>, <<126555, 126555>>, <<126557, 126557>>,
      <<126559, 126559>>, <<126561, 126562>>, <<126564, 126564>>, <<126567, 126570>>,
      <<126572, 126578>>, <<126580, 126583>>, <<126585, 126588>>, <<126590, 126590>>,
      <<126592, 126601>>, <<126603, 126619>>, <<126625, 126627>>, <<126629, 126633>>,
      <<126635, 126651>>, <<127232, 127244>>, <<130032, 130041>>, <<131072, 173791>>,
      <<173824, 177976>>, <<177984, 178205>>, <<178208, 183969>>, <<183984, 191456>>,
      <<194560, 195101>>, <<196608, 201546>>>>

(* the characters str.strip() removes (str.isspace)                         *)
SpaceChars ==
    {9, 10, 11, 12, 13, 28, 29, 30, 31, 32, 133, 160, 5760, 8192, 8193, 8194, 8195, 8196, 8197,
      8198, 8199, 8200, 8201, 8202, 8232, 8233, 8239, 8287, 12288}

(* str.lower() of one character: <<first, last, step, delta>> maps every    *)
(* step-th code point of first..last to itself plus delta; the runs are     *)
(* disjoint, and a character in none of them is left as it is               *)
LowerRuns ==
    <<<<65, 90, 1, 32>>, <<192, 214, 1, 32>>, <<216, 222, 1, 32>>, <<256, 302, 2, 1>>,
      <<306, 310, 2, 1>>, <<313, 327, 2, 1>>, <<330, 374, 2, 1>>, <<376, 376, 1, -121>>,
      <<377, 381, 2, 1>>, <<385, 385, 1, 210>>, <<386, 388, 2, 1>>, <<390, 390, 1, 206>>,
      <<391, 391, 1, 1>>, <<393, 394, 1, 205>>, <<395, 395, 1, 1>>, <<398, 398, 1, 79>>,
      <<399, 399, 1, 202>>, <<400, 400, 1, 203>>, <<401, 401, 1, 1>>, <<403, 403, 1, 205>>,
      <<404, 404, 1, 207>>, <<406, 406, 1, 211>>, <<407, 407, 1, 209>>, <<408, 408, 1, 1>>,
      <<412, 412, 1, 211>>, <<413, 413, 1, 213>>, <<415, 415, 1, 214>>, <<416, 420, 2, 1>>,
      <<422, 422, 1, 218>>, <<423, 423, 1, 1>>, <<425, 425, 1, 218>>, <<428, 428, 1, 1>>,
      <<430, 430, 1, 218>>, <<431, 431, 1, 1>>, <<433, 434, 1, 217>>, <<435, 437, 2, 1>>,
      <<439, 439, 1, 219>>, <<440, 440, 1, 1>>, <<444, 444, 1, 1>>, <<452, 452, 1, 2>>,
      <<453, 453, 1, 1>>, <<455, 455, 1, 2>>, <<456, 456, 1, 1>>, <<458, 458, 1, 2>>,
      <<459, 475, 2, 1>>, <<478, 494, 2, 1>>, <<497, 497, 1, 2>>, <<498, 500, 2, 1>>,
      <<502, 502, 1, -97>>, <<503, 503, 1, -56>>, <<504, 542, 2, 1>>, <<544, 544, 1, -130>>,
      <<546, 562, 2, 1>>, <<570, 570, 1, 10795>>, <<571, 571, 1, 1>>, <<573, 573, 1, -163>>,
      <<574, 574, 1, 10792>>, <<577, 577, 1, 1>>, <<579, 579, 1, -195>>, <<580, 580, 1, 69>>,
      <<581, 581, 1, 71>>, <<582, 590, 2, 1>>, <<880, 882, 2, 1>>, <<886, 886, 1, 1>>,
      <<895, 895, 1, 116>>, <<902, 902, 1, 38>>, <<904, 906, 1, 37>>, <<908, 908, 1, 64>>,
      <<910, 911, 1, 63>>, <<913, 929, 1, 32>>, <<932, 939, 1, 32>>, <<975, 975, 1, 8>>,
      <<984, 1006, 2, 1>>, <<1012, 1012, 1, -60>>, <<1015, 1015, 1, 1>>, <<1017, 1017, 1, -7>>,
      <<1018, 1018, 1, 1>>, <<1021, 1023, 1, -130>>, <<1024, 1039, 1, 80>>,
      <<1040, 1071, 1, 32>>, <<1120, 1152, 2, 1>>, <<1162, 1214, 2, 1>>, <<1216, 1216, 1, 15>>,
      <<1217, 1229, 2, 1>>, <<1232, 1326, 2, 1>>, <<1329, 1366, 1, 48>>, <<4256, 4293, 1, 7264>>,
      <<4295, 4295, 1, 7264>>, <<4301, 4301, 1, 7264>>, <<5024, 5103, 1, 38864>>,
      <<5104, 5109, 1, 8>>, <<7312, 7354, 1, -3008>>, <<7357, 7359, 1, -3008>>,
      <<7680, 7828, 2, 1>>, <<7838, 7838, 1, -7615>>, <<7840, 7934, 2, 1>>,
      <<7944, 7951, 1, -8>>, <<7960, 7965, 1, -8>>, <<7976, 7983, 1, -8>>, <<7992, 7999, 1, -8>>,
      <<8008, 8013, 1, -8>>, <<8025, 8031, 2, -8>>, <<8040, 8047, 1, -8>>, <<8072, 8079, 1, -8>>,
      <<8088, 8095, 1, -8>>, <<8104, 8111, 1, -8>>, <<8120, 8121, 1, -8>>,
      <<8122, 8123, 1, -74>>, <<8124, 8124, 1, -9>>, <<8136, 8139, 1, -86>>,
      <<8140, 8140, 1, -9>>, <<8152, 8153, 1, -8>>, <<8154, 8155, 1, -100>>,
      <<8168, 8169, 1, -8>>, <<8170, 8171, 1, -112>>, <<8172, 8172, 1, -7>>,
      <<8184, 8185, 1, -128>>, <<8186, 8187, 1, -126>>, <<8188, 8188, 1, -9>>,
      <<8486, 8486, 1, -7517>>, <<8490, 8490, 1, -8383>>, <<8491, 8491, 1, -8262>>,
      <<8498, 8498, 1, 28>>, <<8544, 8559, 1, 16>>, <<8579, 8579, 1, 1>>, <<9398, 9423, 1, 26>>,
      <<11264, 11311, 1, 48>>, <<11360, 11360, 1, 1>>, <<11362, 11362, 1, -10743>>,
      <<11363, 11363, 1, -3814>>, <<11364, 11364, 1, -10727>>, <<11367, 11371, 2, 1>>,
      <<11373, 11373, 1, -10780>>, <<11374, 11374, 1, -10749>>, <<11375, 11375, 1, -10783>>,
      <<11376, 11376, 1, -10782>>, <<11378, 11378, 1, 1>>, <<11381, 11381, 1, 1>>,
      <<11390, 11391, 1, -10815>>, <<11392, 11490, 2, 1>>, <<11499, 11501, 2, 1>>,
      <<11506, 11506, 1, 1>>, <<42560, 42604, 2, 1>>, <<42624, 42650, 2, 1>>,
      <<42786, 42798, 2, 1>>, <<42802, 42862, 2, 1>>, <<42873, 42875, 2, 1>>,
      <<42877, 42877, 1, -35332>>, <<42878, 42886, 2, 1>>, <<42891, 42891, 1, 1>>,
      <<42893, 42893, 1, -42280>>, <<42896, 42898, 2, 1>>, <<42902, 42920, 2, 1>>,
      <<42922, 42922, 1, -42308>>, <<42923, 42923, 1, -42319>>, <<42924, 42924, 1, -42315>>,
      <<42925, 42925, 1, -42305>>, <<42926, 42926, 1, -42308>>, <<42928, 42928, 1, -42258>>,
      <<42929, 42929, 1, -42282>>, <<42930, 42930, 1, -42261>>, <<42931, 42931, 1, 928>>,
      <<42932, 42946, 2, 1>>, <<42948, 42948, 1, -48>>, <<42949, 42949, 1, -42307>>,
      <<42950, 42950, 1, -35384>>, <<42951, 42953, 2, 1>>, <<42960, 42960, 1, 1>>,
      <<42966, 42968, 2, 1>>, <<42997, 42997, 1, 1>>, <<65313, 65338, 1, 32>>,
      <<66560, 66599, 1, 40>>, <<66736, 66771, 1, 40>>, <<66928, 66938, 1, 39>>,
      <<66940, 66954, 1, 39>>, <<66956, 66962, 1, 39>>, <<66964, 66965, 1, 39>>,
      <<68736, 68786, 1, 64>>, <<71840, 71871, 1, 32>>, <<93760, 93791, 1, 32>>,
      <<125184, 125217, 1, 34>>>>

(* the cased characters that are not case-ignorable (str.lower() of a       *)
(* capital sigma looks for them around it)                                  *)
CasedRanges ==
    <<<<65, 90>>, <<97, 122>>, <<170, 170>>, <<181, 181>>, <<186, 186>>, <<192, 214>>,
      <<216, 246>>, <<248, 442>>, <<444, 447>>, <<452, 659>>, <<661, 687>>, <<880, 883>>,
      <<886, 887>>, <<891, 893>>, <<895, 895>>, <<902, 902>>, <<904, 906>>, <<908, 908>>,
      <<910, 929>>, <<931, 1013>>, <<1015, 1153>>, <<1162, 1327>>, <<1329, 1366>>,
      <<1376, 1416>>, <<4256, 4293>>, <<4295, 4295>>, <<4301, 4301>>, <<4304, 4346>>,
      <<4349, 4351>>, <<5024, 5109>>, <<5112, 5117>>, <<7296, 7304>>, <<7312, 7354>>,
      <<7357, 7359>>, <<7424, 7467>>, <<7531, 7543>>, <<7545, 7578>>, <<7680, 7957>>,
      <<7960, 7965>>, <<7968, 8005>>, <<8008, 8013>>, <<8016, 8023>>, <<8025, 8025>>,
      <<8027, 8027>>, <<8029, 8029>>, <<8031, 8061>>, <<8064, 8116>>, <<8118, 8124>>,
      <<8126, 8126>>, <<8130, 8132>>, <<8134, 8140>>, <<8144, 8147>>, <<8150, 8155>>,
      <<8160, 8172>>, <<8178, 8180>>, <<8182, 8188>>, <<8450, 8450>>, <<8455, 8455>>,
      <<8458, 8467>>, <<8469, 8469>>, <<8473, 8477>>, <<8484, 8484>>, <<8486, 8486>>,
      <<8488, 8488>>, <<8490, 8493>>, <<8495, 8500>>, <<8505, 8505>>, <<8508, 8511>>,
      <<8517, 8521>>, <<8526, 8526>>, <<8544, 8575>>, <<8579, 8580>>, <<9398, 9449>>,
      <<11264, 11387>>, <<11390, 11492>>, <<11499, 11502>>, <<11506, 11507>>, <<11520, 11557>>,
      <<11559, 11559>>, <<11565, 11565>>, <<42560, 42605>>, <<42624, 42651>>, <<42786, 42863>>,
      <<42865, 42887>>, <<42891, 42894>>, <<42896, 42954>>, <<42960, 42961>>, <<42963, 42963>>,
      <<42965, 42969>>, <<42997, 42998>>, <<43002, 43002>>, <<43824, 43866>>, <<43872, 43880>>,
      <<43888, 43967>>, <<64256, 64262>>, <<64275, 64279>>, <<65313, 65338>>, <<65345, 65370>>,
      <<66560, 66639>>, <<66736, 66771>>, <<66776, 66811>>, <<66928, 66938>>, <<66940, 66954>>,
      <<66956, 66962>>, <<66964, 66965>>, <<66967, 66977>>, <<66979, 66993>>, <<66995, 67001>>,
      <<67003, 67004>>, <<68736, 68786>>, <<68800, 68850>>, <<71840, 71903>>, <<93760, 93823>>,
      <<119808, 119892>>, <<119894, 119964>>, <<119966, 119967>>, <<119970, 119970>>,
      <<119973, 119974>>, <<119977, 119980>>, <<119982, 119993>>, <<119995, 119995>>,
      <<119997, 120003>>, <<120005, 120069>>, <<120071, 120074>>, <<120077, 120084>>,
      <<120086, 120092>>, <<120094, 120121>>, <<120123, 120126>>, <<120128, 120132>>,
      <<120134, 120134>>, <<120138, 120144>>, <<120146, 120485>>, <<120488, 120512>>,
      <<120514, 120538>>, <<120540, 120570>>, <<120572, 120596>>, <<120598, 120628>>,
      <<120630, 120654>>, <<120656, 120686>>, <<120688, 120712>>, <<120714, 120744>>,
      <<120746, 120770>>, <<120772, 120779>>, <<122624, 122633>>, <<122635, 122654>>,
      <<125184, 125251>>, <<127280, 127305>>, <<127312, 127337>>, <<127344, 127369>>>>

(* the case-ignorable characters, which str.lower() skips when it looks     *)
(* around a capital sigma                                                   *)
CaseIgnorableRanges ==
    <<<<39, 39>>, <<46, 46>>, <<58, 58>>, <<94, 94>>, <<96, 96>>, <<168, 168>>, <<173, 173>>,
      <<175, 175>>, <<180, 180>>, <<183, 184>>, <<688, 879>>, <<884, 885>>, <<890, 890>>,
      <<900, 901>>, <<903, 903>>, <<1155, 1161>>, <<1369, 1369>>, <<1375, 1375>>, <<1425, 1469>>,
      <<1471, 1471>>, <<1473, 1474>>, <<1476, 1477>>, <<1479, 1479>>, <<1524, 1524>>,
      <<1536, 1541>>, <<1552, 1562>>, <<1564, 1564>>, <<1600, 1600>>, <<1611, 1631>>,
      <<1648, 1648>>, <<1750, 1757>>, <<1759, 1768>>, <<1770, 1773>>, <<1807, 1807>>,
      <<1809, 1809>>, <<1840, 1866>>, <<1958, 1968>>, <<2027, 2037>>, <<2042, 2042>>,
      <<2045, 2045>>, <<2070, 2093>>, <<2137, 2139>>, <<2184, 2184>>, <<2192, 2193>>,
      <<2200, 2207>>, <<2249, 2306>>, <<2362, 2362>>, <<2364, 2364>>, <<2369, 2376>>,
      <<2381, 2381>>, <<2385, 2391>>, <<2402, 2403>>, <<2417, 2417>>, <<2433, 2433>>,
      <<2492, 2492>>, <<2497, 2500>>, <<2509, 2509>>, <<2530, 2531>>, <<2558, 2558>>,
      <<2561, 2562>>, <<2620, 2620>>, <<2625, 2626>>, <<2631, 2632>>, <<2635, 2637>>,
      <<2641, 2641>>, <<2672, 2673>>, <<2677, 2677>>, <<2689, 2690>>, <<2748, 2748>>,
      <<2753, 2757>>, <<2759, 2760>>, <<2765, 2765>>, <<2786, 2787>>, <<2810, 2815>>,
      <<2817, 2817>>, <<2876, 2876>>, <<2879, 2879>>, <<2881, 2884>>, <<2893, 2893>>,
      <<2901, 2902>>, <<2914, 2915>>, <<2946, 2946>>, <<3008, 3008>>, <<3021, 3021>>,
      <<3072, 3072>>, <<3076, 3076>>, <<3132, 3132>>, <<3134, 3136>>, <<3142, 3144>>,
      <<3146, 3149>>, <<3157, 3158>>, <<3170, 3171>>, <<3201, 3201>>, <<3260, 3260>>,
      <<3263, 3263>>, <<3270, 3270>>, <<3276, 3277>>, <<3298, 3299>>, <<3328, 3329>>,
      <<3387, 3388>>, <<3393, 3396>>, <<3405, 3405>>, <<3426, 3427>>, <<3457, 3457>>,
      <<3530, 3530>>, <<3538, 3540>>, <<3542, 3542>>, <<3633, 3633>>, <<3636, 3642>>,
      <<3654, 3662>>, <<3761, 3761>>, <<3764, 3772>>, <<3782, 3782>>, <<3784, 3789>>,
      <<3864, 3865>>, <<3893, 3893>>, <<3895, 3895>>, <<3897, 3897>>, <<3953, 3966>>,
      <<3968, 3972>>, <<3974, 3975>>, <<3981, 3991>>, <<3993, 4028>>, <<4038, 4038>>,
      <<4141, 4144>>, <<4146, 4151>>, <<4153, 4154>>, <<4157, 4158>>, <<4184, 4185>>,
      <<4190, 4192>>, <<4209, 4212>>, <<4226, 4226>>, <<4229, 4230>>, <<4237, 4237>>,
      <<4253, 4253>>, <<4348, 4348>>, <<4957, 4959>>, <<5906, 5908>>, <<5938, 5939>>,
      <<5970, 5971>>, <<6002, 6003>>, <<6068, 6069>>, <<6071, 6077>>, <<6086, 6086>>,
      <<6089, 6099>>, <<6103, 6103>>, <<6109, 6109>>, <<6155, 6159>>, <<6211, 6211>>,
      <<6277, 6278>>, <<6313, 6313>>, <<6432, 6434>>, <<6439, 6440>>, <<6450, 6450>>,
      <<6457, 6459>>, <<6679, 6680>>, <<6683, 6683>>, <<6742, 6742>>, <<6744, 6750>>,
      <<6752, 6752>>, <<6754, 6754>>, <<6757, 6764>>, <<6771, 6780>>, <<6783, 6783>>,
      <<6823, 6823>>, <<6832, 6862>>, <<6912, 6915>>, <<6964, 6964>>, <<6966, 6970>>,
      <<6972, 6972>>, <<6978, 6978>>, <<7019, 7027>>, <<7040, 7041>>, <<7074, 7077>>,
      <<7080, 7081>>, <<7083, 7085>>, <<7142, 7142>>, <<7144, 7145>>, <<7149, 7149>>,
      <<7151, 7153>>, <<7212, 7219>>, <<7222, 7223>>, <<7288, 7293>>, <<7376, 7378>>,
      <<7380, 7392>>, <<7394, 7400>>, <<7405, 7405>>, <<7412, 7412>>, <<7416, 7417>>,
      <<7468, 7530>>, <<7544, 7544>>, <<7579, 7679>>, <<8125, 8125>>, <<8127, 8129>>,
      <<8141, 8143>>, <<8157, 8159>>, <<8173, 8175>>, <<8189, 8190>>, <<8203, 8207>>,
      <<8216, 8217>>, <<8228, 8228>>, <<8231, 8231>>, <<8234, 8238>>, <<8288, 8292>>,
      <<8294, 8303>>, <<8305, 8305>>, <<8319, 8319>>, <<8336, 8348>>, <<8400, 8432>>,
      <<11388, 11389>>, <<11503, 11505>>, <<11631, 11631>>, <<11647, 11647>>, <<11744, 11775>>,
      <<11823, 11823>>, <<12293, 12293>>, <<12330, 12333>>, <<12337, 12341>>, <<12347, 12347>>,
      <<12441, 12446>>, <<12540, 12542>>, <<40981, 40981>>, <<42232, 42237>>, <<42508, 42508>>,
      <<42607, 42610>>, <<42612, 42621>>, <<42623, 42623>>, <<42652, 42655>>, <<42736, 42737>>,
      <<42752, 42785>>, <<42864, 42864>>, <<42888, 42890>>, <<42994, 42996>>, <<43000, 43001>>,
      <<43010, 43010>>, <<43014, 43014>>, <<43019, 43019>>, <<43045, 43046>>, <<43052, 43052>>,
      <<43204, 43205>>, <<43232, 43249>>, <<43263, 43263>>, <<43302, 43309>>, <<43335, 43345>>,
      <<43392, 43394>>, <<43443, 43443>>, <<43446, 43449>>, <<43452, 43453>>, <<43471, 43471>>,
      <<43493, 43494>>, <<43561, 43566>>, <<43569, 43570>>, <<43573, 43574>>, <<43587, 43587>>,
      <<43596, 43596>>, <<43632, 43632>>, <<43644, 43644>>, <<43696, 43696>>, <<43698, 43700>>,
      <<43703, 43704>>, <<43710, 43711>>, <<43713, 43713>>, <<43741, 43741>>, <<43756, 43757>>,
      <<43763, 43764>>, <<43766, 43766>>, <<43867, 43871>>, <<43881, 43883>>, <<44005, 44005>>,
      <<44008, 44008>>, <<44013, 44013>>, <<64286, 64286>>, <<64434, 64450>>, <<65024, 65039>>,
      <<65043, 65043>>, <<65056, 65071>>, <<65106, 65106>>, <<65109, 65109>>, <<65279, 65279>>,
      <<65287, 65287>>, <<65294, 65294>>, <<65306, 65306>>, <<65342, 65342>>, <<65344, 65344>>,
      <<65392, 65392>>, <<65438, 65439>>, <<65507, 65507>>, <<65529, 65531>>, <<66045, 66045>>,
      <<66272, 66272>>, <<66422, 66426>>, <<67456, 67461>>, <<67463, 67504>>, <<67506, 67514>>,
      <<68097, 68099>>, <<68101, 68102>>, <<68108, 68111>>, <<68152, 68154>>, <<68159, 68159>>,
      <<68325, 68326>>, <<68900, 68903>>, <<69291, 69292>>, <<69446, 69456>>, <<69506, 69509>>,
      <<69633, 69633>>, <<69688, 69702>>, <<69744, 69744>>, <<69747, 69748>>, <<69759, 69761>>,
      <<69811, 69814>>, <<69817, 69818>>, <<69821, 69821>>, <<69826, 69826>>, <<69837, 69837>>,
      <<69888, 69890>>, <<69927, 69931>>, <<69933, 69940>>, <<70003, 70003>>, <<70016, 70017>>,
      <<70070, 70078>>, <<70089, 70092>>, <<70095, 70095>>, <<70191, 70193>>, <<70196, 70196>>,
      <<70198, 70199>>, <<70206, 70206>>, <<70367, 70367>>, <<70371, 70378>>, <<70400, 70401>>,
      <<70459, 70460>>, <<70464, 70464>>, <<70502, 70508>>, <<70512, 70516>>, <<70712, 70719>>,
      <<70722, 70724>>, <<70726, 70726>>, <<70750, 70750>>, <<70835, 70840>>, <<70842, 70842>>,
      <<70847, 70848>>, <<70850, 70851>>, <<71090, 71093>>, <<71100, 71101>>, <<71103, 71104>>,
      <<71132, 71133>>, <<71219, 71226>>, <<71229, 71229>>, <<71231, 71232>>, <<71339, 71339>>,
      <<71341, 71341>>, <<71344, 71349>>, <<71351, 71351>>, <<71453, 71455>>, <<71458, 71461>>,
      <<71463, 71467>>, <<71727, 71735>>, <<71737, 71738>>, <<71995, 71996>>, <<71998, 71998>>,
      <<72003, 72003>>, <<72148, 72151>>, <<72154, 72155>>, <<72160, 72160>>, <<72193, 72202>>,
      <<72243, 72248>>, <<72251, 72254>>, <<72263, 72263>>, <<72273, 72278>>, <<72281, 72283>>,
      <<72330, 72342>>, <<72344, 72345>>, <<72752, 72758>>, <<72760, 72765>>, <<72767, 72767>>,
      <<72850, 72871>>, <<72874, 72880>>, <<72882, 72883>>, <<72885, 72886>>, <<73009, 73014>>,
      <<73018, 73018>>, <<73020, 73021>>, <<73023, 73029>>, <<73031, 73031>>, <<73104, 73105>>,
      <<73109, 73109>>, <<73111, 73111>>, <<73459, 73460>>, <<78896, 78904>>, <<92912, 92916>>,
      <<92976, 92982>>, <<92992, 92995>>, <<94031, 94031>>, <<94095, 94111>>, <<94176, 94177>>,
      <<94179, 94180>>, <<110576, 110579>>, <<110581, 110587>>, <<110589, 110590>>,
      <<113821, 113822>>, <<113824, 113827>>, <<118528, 118573>>, <<118576, 118598>>,
      <<119143, 119145>>, <<119155, 119170>>, <<119173, 119179>>, <<119210, 119213>>,
      <<119362, 119364>>, <<121344, 121398>>, <<121403, 121452>>, <<121461, 121461>>,
      <<121476, 121476>>, <<121499, 121503>>, <<121505, 121519>>, <<122880, 122886>>,
      <<122888, 122904>>, <<122907, 122913>>, <<122915, 122916>>, <<122918, 122922>>,
      <<123184, 123197>>, <<123566, 123566>>, <<123628, 123631>>, <<125136, 125142>>,
      <<125252, 125259>>, <<127995, 127999>>, <<917505, 917505>>, <<917536, 917631>>,
      <<917760, 917999>>>>

(* float(): 2^1024 - 2^970 = 0.d1d2... * 10^309, the least magnitude that   *)
(* rounds to infinity                                                       *)
OverflowDigits ==
    <<1, 7, 9, 7, 6, 9, 3, 1, 3, 4, 8, 6, 2, 3, 1, 5, 8, 0, 7, 9, 3, 7, 2, 8, 9, 7, 1, 4, 0, 5,
      3, 0, 3, 4, 1, 5, 0, 7, 9, 9, 3, 4, 1, 3, 2, 7, 1, 0, 0, 3, 7, 8, 2, 6, 9, 3, 6, 1, 7, 3,
      7, 7, 8, 9, 8, 0, 4, 4, 4, 9, 6, 8, 2, 9, 2, 7, 6, 4, 7, 5, 0, 9, 4, 6, 6, 4, 9, 0, 1, 7,
      9, 7, 7, 5, 8, 7, 2, 0, 7, 0, 9, 6, 3, 3, 0, 2, 8, 6, 4, 1, 6, 6, 9, 2, 8, 8, 7, 9, 1, 0,
      9, 4, 6, 5, 5, 5, 5, 4, 7, 8, 5, 1, 9, 4, 0, 4, 0, 2, 6, 3, 0, 6, 5, 7, 4, 8, 8, 6, 7, 1,
      5, 0, 5, 8, 2, 0, 6, 8, 1, 9, 0, 8, 9, 0, 2, 0, 0, 0, 7, 0, 8, 3, 8, 3, 6, 7, 6, 2, 7, 3,
      8, 5, 4, 8, 4, 5, 8, 1, 7, 7, 1, 1, 5, 3, 1, 7, 6, 4, 4, 7, 5, 7, 3, 0, 2, 7, 0, 0, 6, 9,
      8, 5, 5, 5, 7, 1, 3, 6, 6, 9, 5, 9, 6, 2, 2, 8, 4, 2, 9, 1, 4, 8, 1, 9, 8, 6, 0, 8, 3, 4,
      9, 3, 6, 4, 7, 5, 2, 9, 2, 7, 1, 9, 0, 7, 4, 1, 6, 8, 4, 4, 4, 3, 6, 5, 5, 1, 0, 7, 0, 4,
      3, 4, 2, 7, 1, 1, 5, 5, 9, 6, 9, 9, 5, 0, 8, 0, 9, 3, 0, 4, 2, 8, 8, 0, 1, 7, 7, 9, 0, 4,
      1, 7, 4, 4, 9, 7, 7, 9, 2>>

(* float(): 2^-1075 = 0.d1d2... * 10^-323, the greatest magnitude that      *)
(* rounds to zero                                                           *)
UnderflowDigits ==
    <<2, 4, 7, 0, 3, 2, 8, 2, 2, 9, 2, 0, 6, 2, 3, 2, 7, 2, 0, 8, 8, 2, 8, 4, 3, 9, 6, 4, 3, 4,
      1, 1, 0, 6, 8, 6, 1, 8, 2, 5, 2, 9, 9, 0, 1, 3, 0, 7, 1, 6, 2, 3, 8, 2, 2, 1, 2, 7, 9, 2,
      8, 4, 1, 2, 5, 0, 3, 3, 7, 7, 5, 3, 6, 3, 5, 1, 0, 4, 3, 7, 5, 9, 3, 2, 6, 4, 9, 9, 1, 8,
      1, 8, 0, 8, 1, 7, 9, 9, 6, 1, 8, 9, 8, 9, 8, 2, 8, 2, 3, 4, 7, 7, 2, 2, 8, 5, 8, 8, 6, 5,
      4, 6, 3, 3, 2, 8, 3, 5, 5, 1, 7, 7, 9, 6, 9, 8, 9, 8, 1, 9, 9, 3, 8, 7, 3, 9, 8, 0, 0, 5,
      3, 9, 0, 9, 3, 9, 0, 6, 3, 1, 5, 0, 3, 5, 6, 5, 9, 5, 1, 5, 5, 7, 0, 2, 2, 6, 3, 9, 2, 2,
      9, 0, 8, 5, 8, 3, 9, 2, 4, 4, 9, 1, 0, 5, 1, 8, 4, 4, 3, 5, 9, 3, 1, 8, 0, 2, 8, 4, 9, 9,
      3, 6, 5, 3, 6, 1, 5, 2, 5, 0, 0, 3, 1, 9, 3, 7, 0, 4, 5, 7, 6, 7, 8, 2, 4, 9, 2, 1, 9, 3,
      6, 5, 6, 2, 3, 6, 6, 9, 8, 6, 3, 6, 5, 8, 4, 8, 0, 7, 5, 7, 0, 0, 1, 5, 8, 5, 7, 6, 9, 2,
      6, 9, 9, 0, 3, 7, 0, 6, 3, 1, 1, 9, 2, 8, 2, 7, 9, 5, 5, 8, 5, 5, 1, 3, 3, 2, 9, 2, 7, 8,
      3, 4, 3, 3, 8, 4, 0, 9, 3, 5, 1, 9, 7, 8, 0, 1, 5, 5, 3, 1, 2, 4, 6, 5, 9, 7, 2, 6, 3, 5,
      7, 9, 5, 7, 4, 6, 2, 2, 7, 6, 6, 4, 6, 5, 2, 7, 2, 8, 2, 7, 2, 2, 0, 0, 5, 6, 3, 7, 4, 0,
      0, 6, 4, 8, 5, 4, 9, 9, 9, 7, 7, 0, 9, 6, 5, 9, 9, 4, 7, 0, 4, 5, 4, 0, 2, 0, 8, 2, 8, 1,
      6, 6, 2, 2, 6, 2, 3, 7, 8, 5, 7, 3, 9, 3, 4, 5, 0, 7, 3, 6, 3, 3, 9, 0, 0, 7, 9, 6, 7, 7,
      6, 1, 9, 3, 0, 5, 7, 7, 5, 0, 6, 7, 4, 0, 1, 7, 6, 3, 2, 4, 6, 7, 3, 6, 0, 0, 9, 6, 8, 9,
      5, 1, 3, 4, 0, 5, 3, 5, 5, 3, 7, 4, 5, 8, 5, 1, 6, 6, 6, 1, 1, 3, 4, 2, 2, 3, 7, 6, 6, 6,
      7, 8, 6, 0, 4, 1, 6, 2, 1, 5, 9, 6, 8, 0, 4, 6, 1, 9, 1, 4, 4, 6, 7, 2, 9, 1, 8, 4, 0, 3,
      0, 0, 5, 3, 0, 0, 5, 7, 5, 3, 0, 8, 4, 9, 0, 4, 8, 7, 6, 5, 3, 9, 1, 7, 1, 1, 3, 8, 6, 5,
      9, 1, 6, 4, 6, 2, 3, 9, 5, 2, 4, 9, 1, 2, 6, 2, 3, 6, 5, 3, 8, 8, 1, 8, 7, 9, 6, 3, 6, 2,
      3, 9, 3, 7, 3, 2, 8, 0, 4, 2, 3, 8, 9, 1, 0, 1, 8, 6, 7, 2, 3, 4, 8, 4, 9, 7, 6, 6, 8, 2,
      3, 5, 0, 8, 9, 8, 6, 3, 3, 8, 8, 5, 8, 7, 9, 2, 5, 6, 2, 8, 3, 0, 2, 7, 5, 5, 9, 9, 5, 6,
      5, 7, 5, 2, 4, 4, 5, 5, 5, 0, 7, 2, 5, 5, 1, 8, 9, 3, 1, 3, 6, 9, 0, 8, 3, 6, 2, 5, 4, 7,
      7, 9, 1, 8, 6, 9, 4, 8, 6, 6, 7, 9, 9, 4, 9, 6, 8, 3, 2, 4, 0, 4, 9, 7, 0, 5, 8, 2, 1, 0,
      2, 8, 5, 1, 3, 1, 8, 5, 4, 5, 1, 3, 9, 6, 2, 1, 3, 8, 3, 7, 7, 2, 2, 8, 2, 6, 1, 4, 5, 4,
      3, 7, 6, 9, 3, 4, 1, 2, 5, 3, 2, 0, 9, 8, 5, 9, 1, 3, 2, 7, 6, 6, 7, 2, 3, 6, 3, 2, 8, 1,
      2, 5>>

-----------------------------------------------------------------------------
(* The character classes and the str methods the parser uses.  The tables  *)
(* cover all of Unicode; the ASCII characters are decided without them.    *)
InRanges(c, rs) == \E k \in 1..Len(rs) : rs[k][1] <= c /\ c <= rs[k][2]

(* \d *)
IsDigit(c) == IF c < 128 THEN 48 <= c /\ c <= 57 ELSE InRanges(c, DecimalRanges)
(* the value of a decimal digit *)
DigitVal(c) ==
    IF c < 128 THEN c - 48
    ELSE LET r == DecimalRanges[CHOOSE k \in 1..Len(DecimalRanges) :
                                    DecimalRanges[k][1] <= c /\ c <= DecimalRanges[k][2]]
         IN (c - r[1]) % 10
(* \w *)
IsWord(c) ==
    IF c < 128
    THEN (48 <= c /\ c <= 57) \/ (65 <= c /\ c <= 90) \/ c = 95 \/ (97 <= c /\ c <= 122)
    ELSE InRanges(c, WordRanges)
(* str.isspace() *)
IsSpace(c) == c \in SpaceChars

(* an ASCII digit between two bounds, as the classes [0-5] of strptime *)
AsciiDigit(c, lo, hi) == Zero + lo <= c /\ c <= Zero + hi

(* the lower case of an ASCII letter; other characters are left *)
asciiLowerChar(c) == IF 65 <= c /\ c <= 90 THEN c + 32 ELSE c
asciiLower(s) == [k \in 1..Len(s) |-> asciiLowerChar(s[k])]

RECURSIVE Flatten(_)
Flatten(ss) == IF ss = <<>> THEN <<>> ELSE Head(ss) \o Flatten(Tail(ss))

(* str.lower() of one character other than the capital sigma: one or, for  *)
(* U+0130, two characters                                                  *)
lowerChar(c) ==
    IF c < 128 THEN <<asciiLowerChar(c)>>
    ELSE IF c = 304 THEN <<105, 775>>
    ELSE LET hits == {k \in 1..Len(LowerRuns) :
                         /\ LowerRuns[k][1] <= c /\ c <= LowerRuns[k][2]
                         /\ (c - LowerRuns[k][1]) % LowerRuns[k][3] = 0}
         IN IF hits = {} THEN <<c>>
            ELSE <<c + LowerRuns[CHOOSE k \in hits : TRUE][4]>>

IsCased(c) == InRanges(c, CasedRanges)
IsCaseIgnorable(c) == InRanges(c, CaseIgnorableRanges)

(* the capital sigma at position k is lowered to the final sigma when a    *)
(* cased character comes before it and none after it, case-ignorable       *)
(* characters not counted                                                   *)
final_sigma(s, k) ==
    LET before == {j \in 1..(k - 1) : ~IsCaseIgnorable(s[j])}
        after == {j \in (k + 1)..Len(s) : ~IsCaseIgnorable(s[j])}
    IN /\ before # {}
       /\ IsCased(s[CHOOSE j \in before : \A x \in before : x <= j])
       /\ \/ after = {}
          \/ ~IsCased(s[CHOOSE j \in after : \A x \in after : j <= x])

(* str.lower() *)
lower(s) ==
    IF \A k \in 1..Len(s) : s[k] < 128 THEN asciiLower(s)
    ELSE Flatten([k \in 1..Len(s) |->
                     IF s[k] = 931 THEN <<IF final_sigma(s, k) THEN 962 ELSE 963>>
                     ELSE lowerChar(s[k])])

(* the Python slice s[a-1:b] for a >= 1 *)
Slice(s, a, b) == SubSeq(s, a, IF b > Len(s) THEN Len(s) ELSE b)
(* s[:n] *)
Prefix(s, n) == Slice(s, 1, n)

(* str.strip() *)
strip(s) ==
    IF \A k \in 1..Len(s) : IsSpace(s[k]) THEN <<>>
    ELSE LET a == CHOOSE k \in 1..Len(s) :
                      ~IsSpace(s[k]) /\ \A j \in 1..(k - 1) : IsSpace(s[j])
             b == CHOOSE k \in 1..Len(s) :
                      ~IsSpace(s[k]) /\ \A j \in (k + 1)..Len(s) : IsSpace(s[j])
         IN SubSeq(s, a, b)

(* str.ljust(width, fill) *)
RECURSIVE ljust(_, _, _)
ljust(s, width, fill) == IF Len(s) >= width THEN s ELSE ljust(Append(s, fill), width, fill)

(* the text a file opened in text mode hands over: universal newlines     *)
(* turn "\r\n" and a lone "\r" into "\n"                                    *)
universal_newlines(s) ==
    LET kept == SelectSeq([k \in 1..Len(s) |-> k],
                          LAMBDA k : ~(s[k] = LF /\ k > 1 /\ s[k - 1] = CR))
    IN [j \in 1..Len(kept) |-> IF s[kept[j]] = CR THEN LF ELSE s[kept[j]]]

(* re.search with re.IGNORECASE for a literal pattern of ASCII characters  *)
(* given in lower case: the least index at which pat occurs in s ignoring  *)
(* case, or 0; no character outside ASCII matches an ASCII letter of the   *)
(* markers                                                                  *)
MatchesAt(s, k, pat) ==
    /\ k + Len(pat) - 1 <= Len(s)
    /\ \A j \in 1..Len(pat) : asciiLowerChar(s[k + j - 1]) = pat[j]
re_search(pat, s) ==
    LET hits == {k \in 1..Len(s) : MatchesAt(s, k, pat)}
    IN IF hits = {} THEN 0 ELSE CHOOSE k \in hits : \A j \in hits : k <= j

(* re.split without re.IGNORECASE: only the marker as written is matched *)
RECURSIVE re_split_exact(_, _)
re_split_exact(pat, s) ==
    LET hits == {k \in 1..(Len(s) - Len(pat) + 1) : SubSeq(s, k, k + Len(pat) - 1) = pat}
        k == IF hits = {} THEN 0 ELSE CHOOSE h \in hits : \A j \in hits : h <= j
    IN IF k = 0 THEN <<s>>
       ELSE <<SubSeq(s, 1, k - 1)>> \o re_split_exact(pat, SubSeq(s, k + Len(pat), Len(s)))

(* re.split(pat, s, flags=re.IGNORECASE) for a literal pattern *)
RECURSIVE re_split(_, _)
re_split(pat, s) ==
    LET k == re_search(pat, s)
    IN IF k = 0 THEN <<s>>
       ELSE <<SubSeq(s, 1, k - 1)>> \o re_split(pat, SubSeq(s, k + Len(pat), Len(s)))

EOH == Txt(<<"<","e","o","h",">">>)
EOR == Txt(<<"<","e","o","r",">">>)

-----------------------------------------------------------------------------
(* field_pattern = <(\w+):(\d+)(?::\w)?>(.*?)(?=<|\Z) with re.DOTALL         *)

(* the end of the maximal run of characters of a class that starts at k:   *)
(* the first position from k on that is past the text or not in the class  *)
WordRunEnd(s, k) ==
    CHOOSE e \in k..(Len(s) + 1) :
        (e > Len(s) \/ ~IsWord(s[e])) /\ \A j \in k..(e - 1) : IsWord(s[j])
DigitRunEnd(s, k) ==
    CHOOSE e \in k..(Len(s) + 1) :
        (e > Len(s) \/ ~IsDigit(s[e])) /\ \A j \in k..(e - 1) : IsDigit(s[j])
(* the value runs up to the next "<" or the end of the text *)
ValueEnd(s, k) ==
    CHOOSE e \in k..(Len(s) + 1) :
        (e > Len(s) \/ s[e] = Lt) /\ \A j \in k..(e - 1) : s[j] # Lt

NoMatch == [ok |-> FALSE, name |-> <<>>, digits |-> <<>>, raw |-> <<>>, end |-> 0]

(* the match of field_pattern starting exactly at position k, if any *)
field_pattern_at(s, k) ==
    IF ~(k <= Len(s) /\ s[k] = Lt) THEN NoMatch
    ELSE
    LET ne == WordRunEnd(s, k + 1)            \* \w+ is greedy up to the colon
    IN IF ~(ne > k + 1 /\ ne <= Len(s) /\ s[ne] = Colon) THEN NoMatch
       ELSE
       LET de == DigitRunEnd(s, ne + 1)
           \* \d+ is greedy too: a shorter run leaves a digit where ":" or ">"
           \* is needed; te is the position of the closing ">"
           te == IF de + 2 <= Len(s) /\ s[de] = Colon /\ IsWord(s[de + 1]) /\ s[de + 2] = Gt
                 THEN de + 2
                 ELSE IF de <= Len(s) /\ s[de] = Gt THEN de ELSE 0
       IN IF de = ne + 1 \/ te = 0 THEN NoMatch
          ELSE LET ve == ValueEnd(s, te + 1)
               IN [ok |-> TRUE,
                   name |-> SubSeq(s, k + 1, ne - 1),
                   digits |-> SubSeq(s, ne + 1, de - 1),
                   raw |-> SubSeq(s, te + 1, ve - 1),
                   end |-> ve]

(* field_pattern.finditer(s): the non-overlapping matches, left to right;  *)
(* a match can only start at a "<"                                          *)
RECURSIVE finditer_from(_, _)
finditer_from(s, k) ==
    LET p == IF k > Len(s) THEN k ELSE ValueEnd(s, k)
    IN IF p > Len(s) THEN <<>>
       ELSE LET m == field_pattern_at(s, p)
            IN IF m.ok
               THEN <<[name |-> m.name, digits |-> m.digits, raw |-> m.raw]>>
                        \o finditer_from(s, m.end)
               ELSE finditer_from(s, p + 1)
finditer(s) == finditer_from(s, 1)

-----------------------------------------------------------------------------
(* Python values held in a record: str, int, float and datetime.  A finite *)
(* float is written as the decimal n * 10^(-e) whose nearest double it is, *)
(* with n not a multiple of 10, so that equal decimals are equal; neg is   *)
(* its sign bit and sp tells infinity and nan from the finite numbers.     *)
StrVal(s) ==
    [t |-> "str", s |-> s, n |-> 0, e |-> 0, neg |-> FALSE, sp |-> "", dt |-> <<>>]
IntVal(n) ==
    [t |-> "int", s |-> <<>>, n |-> n, e |-> 0, neg |-> FALSE, sp |-> "", dt |-> <<>>]
RECURSIVE FloatVal(_, _, _)
FloatVal(neg, n, e) ==
    IF n = 0
    THEN [t |-> "float", s |-> <<>>, n |-> 0, e |-> 0, neg |-> neg, sp |-> "", dt |-> <<>>]
    ELSE IF n % 10 = 0 THEN FloatVal(neg, n \div 10, e - 1)
    ELSE [t |-> "float", s |-> <<>>, n |-> n, e |-> e, neg |-> neg, sp |-> "", dt |-> <<>>]
FloatInf(neg) ==
    [t |-> "float", s |-> <<>>, n |-> 0, e |-> 0, neg |-> neg, sp |-> "inf", dt |-> <<>>]
FloatNaN(neg) ==
    [t |-> "float", s |-> <<>>, n |-> 0, e |-> 0, neg |-> neg, sp |-> "nan", dt |-> <<>>]
DateTimeVal(Y, m, d, H, M, S, us) ==
    [t |-> "datetime", s |-> <<>>, n |-> 0, e |-> 0, neg |-> FALSE, sp |-> "",
     dt |-> <<Y, m, d, H, M, S, us>>]

(* the number a string of decimal digits stands for *)
RECURSIVE DecValue(_)
DecValue(ds) == IF ds = <<>> THEN 0
                ELSE 10 * DecValue(SubSeq(ds, 1, Len(ds) - 1)) + DigitVal(ds[Len(ds)])

(* sys.get_int_max_str_digits(): int() raises ValueError for more digits *)
int_max_str_digits == 4300

(* digit (["_"] digit)* : the digit strings int() and float() accept *)
IsDigitPart(s) ==
    /\ Len(s) > 0
    /\ IsDigit(s[1]) /\ IsDigit(s[Len(s)])
    /\ \A k \in 1..Len(s) : IsDigit(s[k]) \/ s[k] = Underscore
    /\ \A k \in 1..(Len(s) - 1) : ~(s[k] = Underscore /\ s[k + 1] = Underscore)
DropUnderscores(s) == SelectSeq(s, LAMBDA c : c # Underscore)
DigitPartValue(s) == DecValue(DropUnderscores(s))

NoNumber == [ok |-> FALSE, val |-> StrVal(<<>>)]

IsSign(c) == c = Plus \/ c = Minus
(* the text after an optional sign *)
Unsigned(s) == IF Len(s) > 0 /\ IsSign(s[1]) THEN Tail(s) ELSE s
IsNegative(s) == Len(s) > 0 /\ s[1] = Minus

(* int(value) in base 10: an optional sign and a digit part of at most     *)
(* int_max_str_digits digits; ok = FALSE stands for ValueError              *)
int(s) ==
    LET body == Unsigned(s)
    IN IF IsDigitPart(body) /\ Len(DropUnderscores(body)) <= int_max_str_digits
       THEN [ok |-> TRUE,
             val |-> IntVal(IF IsNegative(s) THEN 0 - DigitPartValue(body)
                            ELSE DigitPartValue(body))]
       ELSE NoNumber

IndexOf(s, cs) ==
    LET hits == {k \in 1..Len(s) : s[k] \in cs}
    IN IF hits = {} THEN 0 ELSE CHOOSE k \in hits : \A j \in hits : k <= j

(* the digits of a without its leading zeros *)
Significant(a) ==
    IF \A k \in 1..Len(a) : DigitVal(a[k]) = 0 THEN <<>>
    ELSE SubSeq(a, CHOOSE k \in 1..Len(a) :
                       DigitVal(a[k]) # 0 /\ \A j \in 1..(k - 1) : DigitVal(a[j]) = 0,
                Len(a))

(* the order of the fractions 0.a1a2... and 0.d1d2..., a of digit          *)
(* characters and d of digit values: -1, 0 or 1                             *)
CompareFraction(a, d) ==
    LET A(k) == IF k <= Len(a) THEN DigitVal(a[k]) ELSE 0
        D(k) == IF k <= Len(d) THEN d[k] ELSE 0
        n == IF Len(a) > Len(d) THEN Len(a) ELSE Len(d)
        diff == {k \in 1..n : A(k) # D(k)}
    IN IF diff = {} THEN 0
       ELSE LET k == CHOOSE x \in diff : \A y \in diff : x <= y
            IN IF A(k) < D(k) THEN -1 ELSE 1

(* the digits of a without its trailing zeros *)
Mantissa(a) ==
    IF \A k \in 1..Len(a) : DigitVal(a[k]) = 0 THEN <<>>
    ELSE SubSeq(a, 1, CHOOSE k \in 1..Len(a) :
                          DigitVal(a[k]) # 0 /\ \A j \in (k + 1)..Len(a) : DigitVal(a[j]) = 0)

(* how the number 0.sig * 10^adj, sig without leading zeros, is rounded to *)
(* a double: to infinity from 2^1024 - 2^970 on, to zero up to 2^-1075     *)
Rounding(sig, adj) ==
    IF sig = <<>> THEN "zero"
    ELSE IF adj > 309 \/ (adj = 309 /\ CompareFraction(sig, OverflowDigits) >= 0) THEN "inf"
    ELSE IF adj < -323 \/ (adj = -323 /\ CompareFraction(sig, UnderflowDigits) <= 0) THEN "zero"
    ELSE "finite"

(* float(value): an optional sign, then inf, infinity or nan in any case,  *)
(* or digits with an optional point and an optional signed exponent,       *)
(* rounded to the nearest double; ok = FALSE stands for ValueError          *)
float(s) ==
    LET neg == IsNegative(s)
        body == Unsigned(s)
        x == IndexOf(body, {ord("e"), ord("E")})
        mant == IF x = 0 THEN body ELSE SubSeq(body, 1, x - 1)
        expo == IF x = 0 THEN <<>> ELSE SubSeq(body, x + 1, Len(body))
        edigits == Unsigned(expo)
        p == IndexOf(mant, {Dot})
        ip == IF p = 0 THEN mant ELSE SubSeq(mant, 1, p - 1)
        fp == IF p = 0 THEN <<>> ELSE SubSeq(mant, p + 1, Len(mant))
        okPart(d) == d = <<>> \/ IsDigitPart(d)
        fdigits == DropUnderscores(fp)
        sig == Significant(DropUnderscores(ip) \o fdigits)
        ex == IF x = 0 THEN 0
              ELSE IF IsNegative(expo) THEN 0 - DigitPartValue(edigits)
              ELSE DigitPartValue(edigits)
        adj == Len(sig) + ex - Len(fdigits)
        how == Rounding(sig, adj)
    IN IF asciiLower(body) \in {Txt(<<"i","n","f">>), Txt(<<"i","n","f","i","n","i","t","y">>)}
       THEN [ok |-> TRUE, val |-> FloatInf(neg)]
       ELSE IF asciiLower(body) = Txt(<<"n","a","n">>)
       THEN [ok |-> TRUE, val |-> FloatNaN(neg)]
       ELSE IF ~(/\ okPart(ip) /\ okPart(fp) /\ ~(ip = <<>> /\ fp = <<>>)
                 /\ (x = 0 \/ IsDigitPart(edigits)))
       THEN NoNumber
       ELSE IF how = "inf" THEN [ok |-> TRUE, val |-> FloatInf(neg)]
       ELSE IF how = "zero" THEN [ok |-> TRUE, val |-> FloatVal(neg, 0, 0)]
       ELSE [ok |-> TRUE,
             val |-> FloatVal(neg, DecValue(Mantissa(sig)), Len(Mantissa(sig)) - adj)]

(* the calendar checks of the datetime constructor *)
IsLeap(Y) == Y % 4 = 0 /\ (Y % 100 # 0 \/ Y % 400 = 0)
DaysInMonth(Y, m) ==
    IF m = 2 THEN (IF IsLeap(Y) THEN 29 ELSE 28)
    ELSE IF m \in {4, 6, 9, 11} THEN 30 ELSE 31

NoDateTime == [ok |-> FALSE, val |-> StrVal(<<>>)]

(* The two-character alternatives of the strptime directives; the first   *)
(* character is an ASCII digit of a class, the second one is \d where the  *)
(* pattern has \d.  Each gives the number read, or -1.                      *)
TwoDigits(s, k) == 10 * DigitVal(s[k]) + DigitVal(s[k + 1])
(* %m: 1[0-2]|0[1-9] *)
MonthAt(s, k) ==
    IF \/ s[k] = Zero + 1 /\ AsciiDigit(s[k + 1], 0, 2)
       \/ s[k] = Zero /\ AsciiDigit(s[k + 1], 1, 9)
    THEN TwoDigits(s, k) ELSE -1
(* %d: 3[0-1]|[1-2]\d|0[1-9]| [1-9] *)
DayAt(s, k) ==
    IF \/ s[k] = Zero + 3 /\ AsciiDigit(s[k + 1], 0, 1)
       \/ AsciiDigit(s[k], 1, 2) /\ IsDigit(s[k + 1])
       \/ s[k] = Zero /\ AsciiDigit(s[k + 1], 1, 9)
    THEN TwoDigits(s, k)
    ELSE IF s[k] = Space /\ AsciiDigit(s[k + 1], 1, 9) THEN DigitVal(s[k + 1])
    ELSE -1
(* %H: 2[0-3]|[0-1]\d *)
HourAt(s, k) ==
    IF \/ s[k] = Zero + 2 /\ AsciiDigit(s[k + 1], 0, 3)
       \/ AsciiDigit(s[k], 0, 1) /\ IsDigit(s[k + 1])
    THEN TwoDigits(s, k) ELSE -1
(* %M: [0-5]\d *)
MinuteAt(s, k) ==
    IF AsciiDigit(s[k], 0, 5) /\ IsDigit(s[k + 1]) THEN TwoDigits(s, k) ELSE -1
(* %S: 6[0-1]|[0-5]\d *)
SecondAt(s, k) ==
    IF \/ s[k] = Zero + 6 /\ AsciiDigit(s[k + 1], 0, 1)
       \/ AsciiDigit(s[k], 0, 5) /\ IsDigit(s[k + 1])
    THEN TwoDigits(s, k) ELSE -1

(* datetime.strptime(s, '%Y%m%d') for an 8-character s, the only length   *)
(* the parser passes: every directive must take its two-character (four   *)
(* for %Y) alternative, or unconverted data remains and ValueError is      *)
(* raised; ok = FALSE stands for ValueError                                *)
strptime_Ymd(s) ==
    IF Len(s) # 8 \/ \E k \in 1..4 : ~IsDigit(s[k]) THEN NoDateTime
    ELSE LET Y == DecValue(SubSeq(s, 1, 4))
             m == MonthAt(s, 5)
             d == DayAt(s, 7)
         IN IF Y >= 1 /\ m \in 1..12 /\ d >= 1 /\ d <= DaysInMonth(Y, m)
            THEN [ok |-> TRUE, val |-> DateTimeVal(Y, m, d, 0, 0, 0, 0)]
            ELSE NoDateTime

(* datetime.strptime(s, '%Y%m%d%H%M%S') for a 14-character s, the only   *)
(* length the parser passes (8 of the date, 6 of the padded time); the     *)
(* datetime constructor refuses the seconds 60 and 61                       *)
strptime_YmdHMS(s) ==
    IF Len(s) # 14 THEN NoDateTime
    ELSE LET date == strptime_Ymd(SubSeq(s, 1, 8))
             H == HourAt(s, 9)
             M == MinuteAt(s, 11)
             S == SecondAt(s, 13)
         IN IF date.ok /\ H \in 0..23 /\ M \in 0..59 /\ S \in 0..59
            THEN [ok |-> TRUE,
                  val |-> DateTimeVal(date.val.dt[1], date.val.dt[2], date.val.dt[3],
                                      H, M, S, 0)]
            ELSE NoDateTime

(* datetime.utcnow(): the wall clock is read anew for every record; Clock  *)
(* lists the readings of a run in the order of time, and the clock gives   *)
(* any reading not before the last one it gave                              *)
Clock ==
    <<DateTimeVal(2025, 6, 1, 23, 59, 59, 999981),
      DateTimeVal(2025, 6, 1, 23, 59, 59, 999999),
      DateTimeVal(2025, 6, 2, 0, 0, 0, 0)>>
utcnow(last) == {k \in 1..Len(Clock) : k >= last}

-----------------------------------------------------------------------------
(* The input file.  A file is described by its header, its segments and    *)
(* its tail; a segment is leading text followed by field tags with their   *)
(* payloads.  FileText is the decoded text of the file, before the newline *)
(* translation of the read.                                                 *)
F(name, digits, hint, payload) ==
    [name |-> name, digits |-> digits, hint |-> hint, payload |-> payload]

FieldText(f) == <<Lt>> \o f.name \o <<Colon>> \o f.digits \o f.hint \o <<Gt>> \o f.payload

RECURSIVE FieldsText(_)
FieldsText(fs) == IF fs = <<>> THEN <<>> ELSE FieldText(Head(fs)) \o FieldsText(Tail(fs))

SegText(sg) == sg.pre \o FieldsText(sg.fields)

(* the end-of-record marker written after the k-th segment *)
Marker(k) == IF k % 2 = 1 THEN Txt(<<"<","E","O","R",">">>) ELSE Txt(<<"<","e","O","r",">">>)

RECURSIVE SegsText(_, _)
SegsText(sgs, k) ==
    IF k > Len(sgs) THEN <<>>
    ELSE SegText(sgs[k]) \o Marker(k) \o SegsText(sgs, k + 1)

FileText(f) ==
    f.header \o (IF f.terminated THEN SegsText(f.segs, 1)
                 ELSE SegText(f.segs[1])) \o f.tail

(* the field names of the inputs *)
qso_date == Txt(<<"q","s","o","_","d","a","t","e">>)
time_on == Txt(<<"t","i","m","e","_","o","n">>)
qso_datetime == Txt(<<"q","s","o","_","d","a","t","e","t","i","m","e">>)
imported_at == Txt(<<"i","m","p","o","r","t","e","d","_","a","t">>)
freq == Txt(<<"f","r","e","q">>)
cqz == Txt(<<"c","q","z">>)
tx_pwr == Txt(<<"t","x","_","p","w","r">>)
call == Txt(<<"c","a","l","l">>)

(* The fields of the inputs.  Code points above 126 are written as         *)
(* numbers: 1632..1641 are the Arabic-Indic digits 0..9, 201 and 233 are   *)
(* the capital and the small e with acute, 927 and 931 the Greek capitals  *)
(* omicron and sigma, 12 is the form feed.                                  *)

(* the fields whose effect depends on the fields before them: dates,       *)
(* times, the names the parser itself writes, a blank value, and a numeric *)
(* value that converts and one that does not                               *)
Fields ==
    {F(qso_date, Txt(<<"8">>), <<>>, Txt(<<"2","0","2","4","0","1","1","5">>)),
     F(Txt(<<"Q","S","O","_","D","A","T","E">>), Txt(<<"8">>), Txt(<<":","D">>),
       Txt(<<"2","0","2","4","0","2","2","9">>)),
     F(qso_date, Txt(<<"8">>), <<>>, Txt(<<"2","0","2","4","0","2","3","0">>)),
     F(qso_date, Txt(<<"7">>), <<>>, Txt(<<"2","0","2","4","0","1","1">>)),
     F(qso_date, Txt(<<"8">>), <<>>, Txt(<<"2","0","2","4","0","1","1">>) \o <<1637>>),
     F(time_on, Txt(<<"4">>), <<>>, Txt(<<"1","4","3","0">>)),
     F(time_on, Txt(<<"6">>), <<>>, Txt(<<"1","4","3","0","5","9">>)),
     F(time_on, Txt(<<"4">>), <<>>, Txt(<<"1","4","3","0","5","9">>)),
     F(time_on, Txt(<<"3">>), <<>>, Txt(<<"1","4","3">>)),
     F(time_on, Txt(<<"4">>), <<>>, Txt(<<"2","5","6","1">>)),
     F(time_on, Txt(<<"5">>), <<>>, Txt(<<"1","4","3","0","5","\n">>)),
     F(time_on, Txt(<<"7">>), <<>>, Txt(<<"1","4","3","0","5","9","1">>)),
     F(time_on, Txt(<<"4">>), <<>>, Txt(<<"1","4","3">>) \o <<1632>>),
     F(freq, Txt(<<"7">>), <<>>, Txt(<<"g","a","r","b","l","e","d">>)),
     F(cqz, Txt(<<"2">>), <<>>, Txt(<<"0","5">>)),
     F(call, Txt(<<"2">>), <<>>, Txt(<<" "," ">>)),
     F(imported_at, Txt(<<"1">>), <<>>, Txt(<<"x">>)),
     F(qso_datetime, Txt(<<"3">>), <<>>, Txt(<<"a","b","c">>))}

(* the fields that are stored whatever comes before them: numbers, text,   *)
(* lengths and names in several scripts                                     *)
ValueFields ==
    {F(freq, Txt(<<"6">>), <<>>, Txt(<<"1","4",".","2","5","0">>)),
     F(freq, Txt(<<"2">>), <<>>, Txt(<<"1","4">>)),
     F(freq, Txt(<<"5">>), <<>>, Txt(<<"1",".","4",".","2">>)),
     F(freq, Txt(<<"6">>), <<>>, Txt(<<"-","1","4",".","2","5">>)),
     F(freq, Txt(<<"6">>), <<>>, Txt(<<"1",".","5","e","-","3">>)),
     F(freq, Txt(<<"7">>), <<>>, Txt(<<"1",".","0","e","4","0","0">>)),
     F(freq, Txt(<<"8">>), <<>>, Txt(<<"1",".","0","e","-","4","0","0">>)),
     F(freq, Txt(<<"3">>), <<>>, Txt(<<"n","a","n">>)),
     F(tx_pwr, Txt(<<"2">>), <<>>, Txt(<<"-","5">>)),
     F(tx_pwr, Txt(<<"3">>), <<>>, Txt(<<"1","_","0">>)),
     F(cqz, Txt(<<"2">>), <<>>, <<1633, 1634>>),
     F(call, Txt(<<"6">>), <<>>, Txt(<<"1","4",".","2","5","0">>)),
     F(call, Txt(<<"3">>), <<>>, Txt(<<" ","a","b"," ","c">>)),
     F(call, Txt(<<"1">>), <<>>, Txt(<<"\f">>)),
     F(call, Txt(<<"0">>), <<>>, Txt(<<"a","b">>)),
     F(call, Txt(<<"3">>), <<>>, Txt(<<"a","\r","\n","b">>)),
     F(call, <<1635>>, <<>>, Txt(<<"a","b","c","d","e","f">>)),
     F(call, Txt(<<"8">>), <<>>, Txt(<<"2","0","2","4","0","1","1","5">>)),
     F(Txt(<<"C","a","l","l">>), Txt(<<"2">>), Txt(<<":","S">>), Txt(<<"a","b","\n">>)),
     F(Txt(<<"C","A","F">>) \o <<201>>, Txt(<<"2">>), <<Colon, 233>>, Txt(<<"a","b">>)),
     F(<<927, 931>>, Txt(<<"1">>), <<>>, Txt(<<"x">>))}

Seg(pre, fields) == [pre |-> pre, fields |-> fields]

(* segments of the many-record files: blank, whitespace, text without a    *)
(* tag, a field, a field whose value is empty, and two fields              *)
SegShapes ==
    {Seg(<<>>, <<>>),
     Seg(<<LF, 12, 160, Space>>, <<>>),
     Seg(Txt(<<"<","f","o","o",">","b","a","r">>), <<>>),
     Seg(<<LF>>, <<F(call, Txt(<<"2">>), <<>>, Txt(<<"a","b","\n">>))>>),
     Seg(<<>>, <<F(call, Txt(<<"0">>), <<>>, Txt(<<"a","b">>))>>),
     Seg(<<>>, <<F(imported_at, Txt(<<"1">>), <<>>, Txt(<<"x">>))>>),
     Seg(<<>>, <<F(Txt(<<"Q","S","O","_","D","A","T","E">>), Txt(<<"8">>), <<>>,
                   Txt(<<"2","0","2","4","0","1","1","5">>)),
                 F(call, Txt(<<"2">>), <<>>, Txt(<<" "," ">>))>>)}

Headers ==
    {<<>>,
     Txt(<<"h","d","r","<","E","O","H",">">>),
     Txt(<<"<","c","a","l","l",":","2",">","h","h","\n","<","e","o","h",">">>)}

SeqsUpTo(S, n) == UNION {[1..k -> S] : k \in 0..n}

(* one unterminated record of up to MaxFields fields *)
OneRecord(fs) == [header |-> <<>>, segs |-> <<Seg(<<>>, fs)>>, terminated |-> FALSE, tail |-> <<>>]
OneRecordFiles == {OneRecord(fs) : fs \in SeqsUpTo(Fields, MaxFields)}

(* one unterminated record of a field or a pair of fields of either kind *)
ValueFiles ==
    {OneRecord(<<f>>) : f \in ValueFields}
        \cup {OneRecord(<<f, g>>) : f \in Fields \cup ValueFields, g \in ValueFields}
        \cup {OneRecord(<<f, g>>) : f \in ValueFields, g \in Fields}

(* up to MaxSegs terminated records after an optional header *)
ManyRecordFiles ==
    {[header |-> h, segs |-> sgs, terminated |-> TRUE, tail |-> tl] :
        h \in Headers, sgs \in SeqsUpTo(SegShapes, MaxSegs), tl \in {<<>>, <<CR, LF>>}}

(* a run of one digit more than int() converts *)
LongDigits == [k \in 1..(int_max_str_digits + 1) |-> Zero + 1]

(* a numeric value of too many digits, and a record followed by a field    *)
(* whose declared length has too many digits                                *)
LongFiles ==
    {OneRecord(<<F(cqz, Txt(<<"4","3","0","1">>), <<>>, LongDigits)>>),
     [header |-> <<>>,
      segs |-> <<Seg(<<>>, <<F(call, Txt(<<"2">>), <<>>, Txt(<<"a","b">>))>>),
                 Seg(<<>>, <<F(call, LongDigits, <<>>, Txt(<<"a","b">>))>>)>>,
      terminated |-> TRUE, tail |-> <<>>]}

Files == OneRecordFiles \cup ValueFiles \cup ManyRecordFiles \cup LongFiles

-----------------------------------------------------------------------------
(* parse_adif: the record under construction is a function from field      *)
(* names to values.                                                         *)
numeric_fields ==
    {freq,
     Txt(<<"f","r","e","q","_","r","x">>),
     tx_pwr,
     Txt(<<"d","i","s","t","a","n","c","e">>),
     cqz,
     Txt(<<"i","t","u","z">>),
     Txt(<<"d","x","c","c">>),
     Txt(<<"m","y","_","c","q","_","z","o","n","e">>),
     Txt(<<"m","y","_","d","x","c","c">>),
     Txt(<<"m","y","_","i","t","u","_","z","o","n","e">>)}

EmptyDoc == [k \in {} |-> StrVal(<<>>)]
DocSet(d, k, v) == [x \in (DOMAIN d) \cup {k} |-> IF x = k THEN v ELSE d[x]]

(* field_name = match.group(1).lower() *)
field_name_of(m) == lower(m.name)
(* length = int(match.group(2)): ok = FALSE stands for the ValueError of a *)
(* length of more than int_max_str_digits digits                            *)
length_of(m) == int(m.digits)
(* the value trimmed before it is cut: match.group(3).strip()[:length] *)
value_of_trim_first(m) == Prefix(strip(m.raw), length_of(m).val.n)
(* value = match.group(3)[:length].strip() *)
value_of(m) == strip(Prefix(m.raw, length_of(m).val.n))

(* the numeric conversion that always uses float() *)
convert_numeric_float(field_name, value) ==
    IF field_name \in numeric_fields
    THEN IF float(value).ok THEN float(value).val ELSE StrVal(value)
    ELSE StrVal(value)

(* the numeric conversion: float when the value has a point, else int; the *)
(* string is kept when the conversion raises ValueError                     *)
convert_numeric(field_name, value) ==
    IF field_name \in numeric_fields
    THEN LET r == IF \E k \in 1..Len(value) : value[k] = Dot THEN float(value) ELSE int(value)
         IN IF r.ok THEN r.val ELSE StrVal(value)
    ELSE StrVal(value)

(* no datetime is derived from the date alone *)
parse_date_none(d, field_name, value) == d

(* the date-only datetime derived from any 8-character value *)
parse_date_any_name(d, field_name, value) ==
    IF Len(value) = 8 /\ strptime_Ymd(value).ok
    THEN DocSet(d, qso_datetime, strptime_Ymd(value).val)
    ELSE d

(* the date-only datetime derived from an 8-character qso_date *)
parse_date(d, field_name, value) ==
    IF field_name = qso_date /\ Len(value) = 8 /\ strptime_Ymd(value).ok
    THEN DocSet(d, qso_datetime, strptime_Ymd(value).val)
    ELSE d

(* the combination that wants all six characters of the time *)
combine_date_time_six(d, field_name, value) ==
    IF field_name = time_on /\ qso_date \in DOMAIN d
    THEN LET date_str == d[qso_date].s
             time_str == Prefix(ljust(value, 6, Zero), 6)
         IN IF Len(date_str) = 8 /\ Len(value) >= 6 /\ strptime_YmdHMS(date_str \o time_str).ok
            THEN DocSet(d, qso_datetime, strptime_YmdHMS(date_str \o time_str).val)
            ELSE d
    ELSE d

(* the combined datetime derived from time_on and the stored qso_date *)
combine_date_time(d, field_name, value) ==
    IF field_name = time_on /\ qso_date \in DOMAIN d
    THEN LET date_str == d[qso_date].s
             time_str == Prefix(ljust(value, 6, Zero), 6)
         IN IF Len(date_str) = 8 /\ Len(value) >= 4 /\ strptime_YmdHMS(date_str \o time_str).ok
            THEN DocSet(d, qso_datetime, strptime_YmdHMS(date_str \o time_str).val)
            ELSE d
    ELSE d

(* the body of the loop over the matches of one record, for a length that  *)
(* int() converts                                                           *)
process_field(d, m) ==
    LET field_name == field_name_of(m)
        value == value_of(m)
    IN IF value # <<>>
       THEN DocSet(combine_date_time(parse_date(d, field_name, value), field_name, value),
                   field_name, convert_numeric(field_name, value))
       ELSE d

-----------------------------------------------------------------------------
(* The steps of parse_adif.                                                 *)
ParseIdle ==
    /\ pc = "idle" /\ content = <<>> /\ records = <<>> /\ ri = 0 /\ record = <<>>
    /\ matches = <<>> /\ mi = 0 /\ doc = EmptyDoc /\ yielded = <<>> /\ tick = 1
MainIdle ==
    /\ mpc = "idle" /\ main_records = <<>> /\ total_records = 0 /\ i = 0
    /\ inserted = 0 /\ store = <<>> /\ calls = <<>> /\ out = <<>>
    /\ opened = 0 /\ closed = 0

InitParse ==
    /\ adif \in Files
    /\ parse_ok = TRUE
    /\ pc = "read" /\ content = <<>> /\ records = <<>> /\ ri = 0 /\ record = <<>>
    /\ matches = <<>> /\ mi = 0 /\ doc = EmptyDoc /\ yielded = <<>> /\ tick = 1
    /\ MainIdle

(* content = f.read() of the file opened in text mode *)
ReadFile ==
    /\ pc = "read"
    /\ content' = universal_newlines(FileText(adif))
    /\ pc' = "header"
    /\ UNCHANGED <<adif, records, ri, record, matches, mi, doc, yielded, tick, mvars>>

(* the header ends after the first <EOH> *)
StripHeader ==
    /\ pc = "header"
    /\ LET k == re_search(EOH, content)
       IN content' = IF k # 0 THEN SubSeq(content, k + Len(EOH), Len(content)) ELSE content
    /\ pc' = "split"
    /\ UNCHANGED <<adif, records, ri, record, matches, mi, doc, yielded, tick, mvars>>

(* records = re.split(r'<EOR>', content, flags=re.IGNORECASE) *)
SplitRecords ==
    /\ pc = "split"
    /\ records' = re_split(EOR, content)
    /\ ri' = 1
    /\ pc' = "record"
    /\ UNCHANGED <<adif, content, record, matches, mi, doc, yielded, tick, mvars>>

(* a record that is blank after strip() is skipped *)
SkipBlankRecord ==
    /\ pc = "record" /\ ri <= Len(records)
    /\ strip(records[ri]) = <<>>
    /\ record' = <<>>
    /\ ri' = ri + 1
    /\ UNCHANGED <<adif, pc, content, records, matches, mi, doc, yielded, tick, mvars>>

(* doc = {} and the iteration over the field matches starts *)
BeginRecord ==
    /\ pc = "record" /\ ri <= Len(records)
    /\ strip(records[ri]) # <<>>
    /\ record' = strip(records[ri])
    /\ doc' = EmptyDoc
    /\ matches' = finditer(strip(records[ri]))
    /\ mi' = 1
    /\ pc' = "field"
    /\ UNCHANGED <<adif, content, records, ri, yielded, tick, mvars>>

(* one iteration of the loop over the matches *)
Field ==
    /\ pc = "field" /\ mi <= Len(matches)
    /\ length_of(matches[mi]).ok
    /\ doc' = process_field(doc, matches[mi])
    /\ mi' = mi + 1
    /\ UNCHANGED <<adif, pc, content, records, ri, record, matches, yielded, tick, mvars>>

(* int(match.group(2)) raises ValueError: the exception is not caught and  *)
(* ends parse_adif                                                          *)
FieldRaise ==
    /\ pc = "field" /\ mi <= Len(matches)
    /\ ~length_of(matches[mi]).ok
    /\ pc' = "raised"
    /\ UNCHANGED <<adif, content, records, ri, record, matches, mi, doc, yielded, tick, mvars>>

(* a non-empty doc is stamped with imported_at and yielded *)
YieldRecord ==
    /\ pc = "field" /\ mi > Len(matches)
    /\ doc # EmptyDoc
    /\ \E k \in utcnow(tick) :
        /\ doc' = DocSet(doc, imported_at, Clock[k])
        /\ tick' = k
    /\ yielded' = Append(yielded, doc')
    /\ ri' = ri + 1
    /\ pc' = "record"
    /\ UNCHANGED <<adif, content, records, record, matches, mi, mvars>>

(* an empty doc is dropped *)
DropRecord ==
    /\ pc = "field" /\ mi > Len(matches)
    /\ doc = EmptyDoc
    /\ ri' = ri + 1
    /\ pc' = "record"
    /\ UNCHANGED <<adif, content, records, record, matches, mi, doc, yielded, tick, mvars>>

(* the loop over the records is exhausted *)
ParseDone ==
    /\ pc = "record" /\ ri > Len(records)
    /\ pc' = "done"
    /\ UNCHANGED <<adif, content, records, ri, record, matches, mi, doc, yielded, tick, mvars>>

NextParse ==
    \/ ReadFile \/ StripHeader \/ SplitRecords \/ SkipBlankRecord \/ BeginRecord
    \/ Field \/ FieldRaise \/ YieldRecord \/ DropRecord \/ ParseDone

SpecParse == InitParse /\ [][NextParse]_vars

-----------------------------------------------------------------------------
(* main: the loader.  A parsed record is identified by its position in the *)
(* file; the store is the sequence of records written to the collection.   *)
batch_size == 100

Line(msg, a, b) == [msg |-> msg, a |-> a, b |-> b]

NoFile == [header |-> <<>>, segs |-> <<>>, terminated |-> TRUE, tail |-> <<>>]

Init ==
    /\ parse_ok \in BOOLEAN
    /\ adif = NoFile
    /\ ParseIdle
    /\ mpc = "start" /\ main_records = <<>> /\ total_records = 0 /\ i = 0
    /\ inserted = 0 /\ store = <<>> /\ calls = <<>> /\ out = <<>>
    /\ opened = 0 /\ closed = 0

(* client = MongoClient(...) and the first progress line *)
Connect ==
    /\ mpc = "start"
    /\ opened' = opened + 1
    /\ out' = Append(out, Line("Parsing ADIF file", 0, 0))
    /\ mpc' = "parse"
    /\ UNCHANGED <<pvars, parse_ok, main_records, total_records, i, inserted, store, calls, closed>>

(* records = list(parse_adif(adif_file)) for a file that yields n records  *)
(* and raises nothing                                                       *)
Parse ==
    /\ mpc = "parse" /\ parse_ok
    /\ \E n \in 0..MaxTotal :
        /\ main_records' = [k \in 1..n |-> k]
        /\ total_records' = n
        /\ out' = Append(out, Line("Found", n, 0))
    /\ mpc' = "check"
    /\ UNCHANGED <<pvars, parse_ok, i, inserted, store, calls, opened, closed>>

(* parse_adif raises (open() fails, or int() refuses the length of a      *)
(* field): the exception leaves main                                       *)
ParseFail ==
    /\ mpc = "parse" /\ ~parse_ok
    /\ mpc' = "crashed"
    /\ UNCHANGED <<pvars, parse_ok, main_records, total_records, i, inserted, store, calls, out,
                   opened, closed>>

(* the batch loop entered also for an empty list: total_records >= 0 *)
StartLoop_nonneg ==
    /\ mpc = "check" /\ total_records >= 0
    /\ i' = 0
    /\ inserted' = 0
    /\ mpc' = "loop"
    /\ UNCHANGED <<pvars, parse_ok, main_records, total_records, store, calls, out, opened, closed>>

(* total_records > 0: the batch loop starts *)
StartLoop ==
    /\ mpc = "check" /\ total_records > 0
    /\ i' = 0
    /\ inserted' = 0
    /\ mpc' = "loop"
    /\ UNCHANGED <<pvars, parse_ok, main_records, total_records, store, calls, out, opened, closed>>

(* the else branch *)
NoRecords ==
    /\ mpc = "check" /\ total_records = 0
    /\ out' = Append(out, Line("No records found to import", 0, 0))
    /\ mpc' = "close"
    /\ UNCHANGED <<pvars, parse_ok, main_records, total_records, i, inserted, store, calls,
                   opened, closed>>

(* a batch that runs one record into the next: records[i:i + batch_size + 1] *)
batch_at_overlap(recs, k) == Slice(recs, k + 1, k + batch_size + 1)

(* batch = records[i:i + batch_size] *)
batch_at(recs, k) == Slice(recs, k + 1, k + batch_size)

(* one iteration of the loop whose insert_many succeeds *)
InsertBatch ==
    /\ mpc = "loop" /\ i < total_records
    /\ LET batch == batch_at(main_records, i)
       IN /\ calls' = Append(calls, batch)
          /\ store' = store \o batch
          /\ inserted' = inserted + Len(batch)
          /\ out' = Append(out, Line("Inserted", inserted + Len(batch), total_records))
    /\ i' = i + batch_size
    /\ UNCHANGED <<pvars, parse_ok, mpc, main_records, total_records, opened, closed>>

(* a failed insert_many that is swallowed, so that the loop goes on *)
InsertFail_swallowed ==
    /\ mpc = "loop" /\ i < total_records
    /\ LET batch == Slice(main_records, i + 1, i + batch_size)
       IN /\ calls' = Append(calls, batch)
          /\ \E written \in 0..Len(batch) : store' = store \o Prefix(batch, written)
    /\ i' = i + batch_size
    /\ UNCHANGED <<pvars, parse_ok, mpc, main_records, total_records, inserted, out, opened, closed>>

(* one iteration whose insert_many raises: an ordered insert has written   *)
(* some prefix of the batch, and the exception leaves main                 *)
InsertFail ==
    /\ mpc = "loop" /\ i < total_records
    /\ LET batch == batch_at(main_records, i)
       IN /\ calls' = Append(calls, batch)
          /\ \E written \in 0..Len(batch) : store' = store \o Prefix(batch, written)
    /\ mpc' = "crashed"
    /\ UNCHANGED <<pvars, parse_ok, main_records, total_records, i, inserted, out, opened, closed>>

(* the range is exhausted: the success message *)
LoopDone ==
    /\ mpc = "loop" /\ i >= total_records
    /\ out' = Append(out, Line("Successfully imported", inserted, 0))
    /\ mpc' = "close"
    /\ UNCHANGED <<pvars, parse_ok, main_records, total_records, i, inserted, store, calls,
                   opened, closed>>

(* client.close() *)
Close ==
    /\ mpc = "close"
    /\ closed' = closed + 1
    /\ mpc' = "done"
    /\ UNCHANGED <<pvars, parse_ok, main_records, total_records, i, inserted, store, calls, out,
                   opened>>

Next ==
    \/ Connect \/ Parse \/ ParseFail \/ StartLoop \/ NoRecords
    \/ InsertBatch \/ InsertFail \/ LoopDone \/ Close

Spec == Init /\ [][Next]_vars

-----------------------------------------------------------------------------
(* Properties of parse_adif, checked under SpecParse.                      *)

(* the payload has a non-blank character within its declared length *)
HasValue(raw, L) == \E k \in 1..Len(raw) : k <= L /\ ~IsSpace(raw[k])

(* the match that the last Field step processed *)
JustProcessed == pc = "field" /\ mi > 1
last_match == matches[mi - 1]
last_name == lower(last_match.name)
last_stored == JustProcessed /\ HasValue(last_match.raw, DecValue(last_match.digits))

(* doc is a record that has been yielded, and matches are its fields *)
Emitted == pc \in {"record", "done"} /\ doc # EmptyDoc

(* the matches of the current record that carry a value under a name *)
ValuedMatches(name) ==
    {j \in 1..Len(matches) :
        /\ lower(matches[j].name) = name
        /\ HasValue(matches[j].raw, DecValue(matches[j].digits))}

(* a time value padded with zeros or cut to six characters *)
Padded6(x) == [k \in 1..6 |-> IF k <= Len(x) THEN x[k] ELSE Zero]

Date20240115 == F(qso_date, Txt(<<"8">>), <<>>, Txt(<<"2","0","2","4","0","1","1","5">>))
Time1430 == F(time_on, Txt(<<"4">>), <<>>, Txt(<<"1","4","3","0">>))

(* C1 as stated: date before time gives the combined qso_datetime, time    *)
(* before date gives a record without a qso_datetime key                   *)
C1_Original ==
    pc = "done" =>
        /\ adif = OneRecord(<<Date20240115, Time1430>>) =>
              /\ Len(yielded) = 1
              /\ qso_datetime \in DOMAIN yielded[1]
              /\ yielded[1][qso_datetime] = DateTimeVal(2024, 1, 15, 14, 30, 0, 0)
        /\ adif = OneRecord(<<Time1430, Date20240115>>) =>
              /\ Len(yielded) = 1
              /\ qso_datetime \notin DOMAIN yielded[1]

(* C1 amended: date before time gives the combined qso_datetime            *)
(* 2024-01-15T14:30:00; time before date gives the date alone,              *)
(* qso_datetime = 2024-01-15T00:00:00                                       *)
C1_FieldOrder ==
    pc = "done" =>
        /\ adif = OneRecord(<<Date20240115, Time1430>>) =>
              /\ Len(yielded) = 1
              /\ qso_datetime \in DOMAIN yielded[1]
              /\ yielded[1][qso_datetime] = DateTimeVal(2024, 1, 15, 14, 30, 0, 0)
        /\ adif = OneRecord(<<Time1430, Date20240115>>) =>
              /\ Len(yielded) = 1
              /\ qso_datetime \in DOMAIN yielded[1]
              /\ yielded[1][qso_datetime] = DateTimeVal(2024, 1, 15, 0, 0, 0, 0)

C1_Witness ==
    /\ pc = "done"
    /\ adif = OneRecord(<<Time1430, Date20240115>>)
    /\ Len(yielded) = 1
    /\ DOMAIN yielded[1] = {time_on, qso_date, qso_datetime, imported_at}

(* the payload of a field as it is read, and its declared length; the      *)
(* segments of the file that have a field with a non-empty value           *)
AsRead(f) == universal_newlines(f.payload)
Declared(f) == DecValue(f.digits)
SegHasValue(sg) == \E j \in 1..Len(sg.fields) : HasValue(AsRead(sg.fields[j]), Declared(sg.fields[j]))
ValuedNames(sg) ==
    {lower(sg.fields[j].name) : j \in {k \in 1..Len(sg.fields) :
                                          HasValue(AsRead(sg.fields[k]), Declared(sg.fields[k]))}}
Added == {qso_datetime, imported_at}

(* one record per segment with a valued field, in file order, each stamped *)
RecordPerSegment ==
    LET expected == SelectSeq(adif.segs, SegHasValue)
    IN /\ Len(yielded) = Len(expected)
       /\ \A k \in 1..Len(yielded) :
            /\ imported_at \in DOMAIN yielded[k]
            /\ \E c \in 1..Len(Clock) : yielded[k][imported_at] = Clock[c]
            /\ (DOMAIN yielded[k]) \ Added = ValuedNames(expected[k]) \ Added

(* every field tag of the file declares a length that int() converts: one  *)
(* of at most int_max_str_digits digits                                    *)
LengthsConvert ==
    \A k \in 1..Len(adif.segs) : \A j \in 1..Len(adif.segs[k].fields) :
        Len(adif.segs[k].fields[j].digits) <= int_max_str_digits

(* C5 as stated: for every input the parse yields one record per segment   *)
(* that has a field with a non-empty value, in file order, none for other  *)
(* segments; every record carries imported_at and at least one field       *)
(* parsed from the source                                                  *)
C5_Original ==
    /\ pc # "raised"
    /\ pc = "done" =>
        /\ RecordPerSegment
        /\ \A k \in 1..Len(yielded) : \E key \in DOMAIN yielded[k] : key # imported_at

(* C5 amended: for every input whose field tags all declare a length of at *)
(* most 4300 digits the parse raises no error and yields one record per    *)
(* segment that has a field with a non-empty value, in file order, none    *)
(* for other segments; every record carries imported_at, and a field       *)
(* parsed from the source unless all the valued fields of its segment are  *)
(* named imported_at (the stamp replaces them)                             *)
C5_RecordCount ==
    LengthsConvert =>
        /\ pc # "raised"
        /\ pc = "done" =>
            /\ RecordPerSegment
            /\ \A k \in 1..Len(yielded) :
                \/ \E key \in DOMAIN yielded[k] : key # imported_at
                \/ ValuedNames(SelectSeq(adif.segs, SegHasValue)[k]) = {imported_at}

C5_Witness ==
    /\ pc = "done"
    /\ adif.header # <<>>
    /\ Len(adif.segs) = 3
    /\ Len(yielded) = 2
    /\ DOMAIN yielded[1] = {imported_at}
    /\ qso_date \in DOMAIN yielded[2]

(* the derived values a date field, and a date followed by a time, give *)
MidnightOf(j) == strptime_Ymd(value_of(matches[j])).val
CombinedOf(jd, jt) ==
    strptime_YmdHMS(value_of(matches[jd]) \o Padded6(value_of(matches[jt])))
WellFormedDates == {j \in ValuedMatches(qso_date) : strptime_Ymd(value_of(matches[j])).ok}

(* C6 as stated, for the derived field: qso_datetime only with a          *)
(* well-formed qso_date and a well-formed time_on, then combined from      *)
(* both; none with a date alone                                            *)
C6_Original ==
    (Emitted /\ ValuedMatches(qso_datetime) = {}) =>
        /\ qso_datetime \in DOMAIN doc =>
              \E jd \in WellFormedDates, jt \in ValuedMatches(time_on) :
                  /\ CombinedOf(jd, jt).ok
                  /\ doc[qso_datetime] = CombinedOf(jd, jt).val
        /\ (qso_date \in DOMAIN doc /\ time_on \notin DOMAIN doc) =>
              qso_datetime \notin DOMAIN doc

(* C6 amended: in a record whose source has no field named qso_datetime,   *)
(* qso_datetime is present exactly when the record has a well-formed       *)
(* qso_date (a time_on is not needed); it is such a date at midnight, or   *)
(* the date-time combined from such a date and a later well-formed time_on *)
(* of 4 or more characters; with a well-formed qso_date and no time_on it  *)
(* is the last such date at midnight                                       *)
C6_DerivedDatetime ==
    (Emitted /\ ValuedMatches(qso_datetime) = {}) =>
        /\ qso_datetime \in DOMAIN doc <=> WellFormedDates # {}
        /\ qso_datetime \in DOMAIN doc =>
              \/ \E jd \in WellFormedDates : doc[qso_datetime] = MidnightOf(jd)
              \/ \E jd \in WellFormedDates, jt \in ValuedMatches(time_on) :
                    /\ jd < jt
                    /\ Len(value_of(matches[jt])) >= 4
                    /\ CombinedOf(jd, jt).ok
                    /\ doc[qso_datetime] = CombinedOf(jd, jt).val
        /\ (WellFormedDates # {} /\ ValuedMatches(time_on) = {}) =>
              LET jd == CHOOSE j \in WellFormedDates : \A k \in WellFormedDates : k <= j
              IN /\ doc[qso_datetime] = MidnightOf(jd)
                 /\ doc[qso_datetime].dt[4] = 0 /\ doc[qso_datetime].dt[5] = 0
                 /\ doc[qso_datetime].dt[6] = 0 /\ doc[qso_datetime].dt[7] = 0

C6_Witness ==
    /\ Emitted
    /\ DOMAIN doc = {qso_date, qso_datetime, imported_at}
    /\ doc[qso_datetime] = DateTimeVal(2024, 1, 15, 0, 0, 0, 0)

(* C7: a stored string is the payload cut to its first L characters and    *)
(* then trimmed: at most L long, taken from within the first L characters, *)
(* with only whitespace cut away around it                                 *)
C7_Truncation ==
    last_stored =>
        LET raw == last_match.raw
            L == DecValue(last_match.digits)
        IN /\ last_name \in DOMAIN doc
           /\ doc[last_name].t = "str" =>
                LET v == doc[last_name].s
                IN /\ Len(v) >= 1 /\ Len(v) <= L
                   /\ ~IsSpace(v[1]) /\ ~IsSpace(v[Len(v)])
                   /\ \E a \in 1..Len(raw) :
                        /\ a + Len(v) - 1 <= L
                        /\ a + Len(v) - 1 <= Len(raw)
                        /\ v = SubSeq(raw, a, a + Len(v) - 1)
                        /\ \A j \in 1..Len(raw) :
                             (j <= L /\ (j < a \/ j > a + Len(v) - 1)) => IsSpace(raw[j])

C7_Witness ==
    /\ last_stored
    /\ Len(last_match.raw) > DecValue(last_match.digits)
    /\ last_name \in DOMAIN doc
    /\ doc[last_name].t = "str"
    /\ Len(doc[last_name].s) = DecValue(last_match.digits)

ClaimedNumeric ==
    {freq,
     Txt(<<"f","r","e","q","_","r","x">>),
     tx_pwr,
     Txt(<<"d","i","s","t","a","n","c","e">>),
     cqz,
     Txt(<<"i","t","u","z">>),
     Txt(<<"d","x","c","c">>),
     Txt(<<"m","y","_","c","q","_","z","o","n","e">>),
     Txt(<<"m","y","_","d","x","c","c">>),
     Txt(<<"m","y","_","i","t","u","_","z","o","n","e">>)}

(* C9: a valued field of the numeric set is stored as a float when it has  *)
(* a point and converts, as an int when it has none and converts, else as  *)
(* the trimmed string; other fields are stored as strings; the fields      *)
(* after a failed conversion are still stored                              *)
C9_NumericCoercion ==
    /\ last_stored =>
        LET x == value_of(last_match)
            v == doc[last_name]
        IN /\ last_name \in DOMAIN doc
           /\ IF last_name \in ClaimedNumeric
              THEN IF \E k \in 1..Len(x) : x[k] = Dot
                   THEN IF float(x).ok THEN v.t = "float" /\ v = float(x).val
                        ELSE v = StrVal(x)
                   ELSE IF int(x).ok THEN v.t = "int" /\ v = int(x).val
                        ELSE v = StrVal(x)
              ELSE v = StrVal(x)
           /\ (last_name = freq /\ x = Txt(<<"1","4",".","2","5","0">>)) =>
                (v.t = "float" /\ v.n = 1425 /\ v.e = 2)
           /\ (last_name = freq /\ x = Txt(<<"g","a","r","b","l","e","d">>)) =>
                (v.t = "str" /\ v.s = Txt(<<"g","a","r","b","l","e","d">>))
           /\ (last_name = freq /\ x = Txt(<<"1","4">>)) => (v.t = "int" /\ v.n = 14)
           /\ (last_name = call /\ x = Txt(<<"1","4",".","2","5","0">>)) =>
                (v.t = "str" /\ v.s = Txt(<<"1","4",".","2","5","0">>))
    /\ Emitted =>
        \A j \in 1..Len(matches) :
            HasValue(matches[j].raw, DecValue(matches[j].digits)) =>
                lower(matches[j].name) \in DOMAIN doc

C9_Witness ==
    /\ pc = "field" /\ mi = 3
    /\ lower(matches[1].name) = freq
    /\ value_of(matches[1]) = Txt(<<"g","a","r","b","l","e","d">>)
    /\ DOMAIN doc = {freq, cqz}
    /\ doc[freq].t = "str"
    /\ doc[cqz].t = "int"

(* the derived qso_datetime is the same before and after the step *)
SameDerived ==
    /\ qso_datetime \in DOMAIN doc' <=> qso_datetime \in DOMAIN doc
    /\ qso_datetime \in DOMAIN doc => doc'[qso_datetime] = doc[qso_datetime]

TimeAfterDate ==
    /\ Field
    /\ lower(matches[mi].name) = time_on
    /\ HasValue(matches[mi].raw, DecValue(matches[mi].digits))
    /\ qso_date \in DOMAIN doc

(* C10 as stated: a time value of any length after a stored date is padded *)
(* or cut to 6 characters and parsed with the date; on success             *)
(* qso_datetime is overwritten, on failure it is left as it was            *)
C10_Original ==
    [][TimeAfterDate =>
        LET r == strptime_YmdHMS(doc[qso_date].s \o Padded6(value_of(matches[mi])))
        IN IF r.ok THEN qso_datetime \in DOMAIN doc' /\ doc'[qso_datetime] = r.val
           ELSE SameDerived]_vars

(* C10 amended: a time value of 4 or more characters after a stored        *)
(* 8-character date is padded or cut to 6 characters and parsed with the   *)
(* date; on success qso_datetime is overwritten, on failure it is left as  *)
(* it was; a shorter time value, or a stored date that is not 8 characters *)
(* long, leaves qso_datetime as it was                                     *)
C10_CombineTime ==
    [][TimeAfterDate =>
        LET x == value_of(matches[mi])
            r == strptime_YmdHMS(doc[qso_date].s \o Padded6(x))
        IN IF Len(x) >= 4 /\ Len(doc[qso_date].s) = 8 /\ r.ok
           THEN qso_datetime \in DOMAIN doc' /\ doc'[qso_datetime] = r.val
           ELSE SameDerived]_vars

C10_Witness ==
    /\ JustProcessed
    /\ last_name = time_on
    /\ Len(value_of(last_match)) = 7
    /\ qso_date \in DOMAIN doc /\ qso_datetime \in DOMAIN doc
    /\ doc[qso_datetime].dt = <<2024, 1, 15, 14, 30, 59, 0>>

-----------------------------------------------------------------------------
(* Properties of main, checked under Spec.                                 *)

CeilDiv(a, b) == (a + b - 1) \div b

Lines(msg) == SelectSeq(out, LAMBDA l : l.msg = msg)
Finished == mpc \in {"done", "crashed"}

(* C2: with N > 0 records and writes that all succeed there are            *)
(* ceil(N/100) insert_many calls, all of 100 records but the last, which   *)
(* has the rest; the calls in order make up the record list; the reported  *)
(* count never decreases and ends at N                                     *)
C2_Batches ==
    /\ \A k \in 1..(Len(Lines("Inserted")) - 1) :
            Lines("Inserted")[k].a <= Lines("Inserted")[k + 1].a
    /\ (mpc \in {"close", "done"} /\ total_records > 0) =>
        LET N == total_records
            nb == CeilDiv(N, 100)
        IN /\ Len(calls) = nb
           /\ \A k \in 1..(nb - 1) : Len(calls[k]) = 100
           /\ Len(calls[nb]) = N - 100 * (nb - 1)
           /\ Flatten(calls) = main_records
           /\ store = main_records
           /\ \A k \in 1..N : store[k] = k
           /\ Len(Lines("Inserted")) = nb
           /\ Lines("Inserted")[nb].a = N
           /\ inserted = N
           /\ Lines("Successfully imported") = <<Line("Successfully imported", N, 0)>>

C2_Witness ==
    /\ mpc = "done"
    /\ total_records = 250
    /\ Len(calls) = 3
    /\ Len(calls[1]) = 100 /\ Len(calls[2]) = 100 /\ Len(calls[3]) = 50
    /\ inserted = 250

(* a write has failed: an insert_many call without its progress line *)
WriteFailed == Len(calls) > Len(Lines("Inserted"))

(* C3: when the write of batch k fails the run is over: batches 1..k-1 are *)
(* in the store, batch k was attempted once and no later batch at all, no  *)
(* further progress line and no success message is printed, and the store  *)
(* holds no record of a batch after k                                      *)
C3_FatalWrite ==
    WriteFailed =>
        LET k == Len(calls)
        IN /\ mpc = "crashed"
           /\ ~ENABLED Next
           /\ \A j \in 1..k : calls[j] = Slice(main_records, 100 * (j - 1) + 1, 100 * j)
           /\ Len(store) >= 100 * (k - 1)
           /\ SubSeq(store, 1, 100 * (k - 1)) = SubSeq(main_records, 1, 100 * (k - 1))
           /\ \A x \in 1..Len(store) : store[x] <= 100 * k
           /\ Len(Lines("Inserted")) = k - 1
           /\ Lines("Successfully imported") = <<>>

C3_Witness ==
    /\ WriteFailed
    /\ mpc = "crashed"
    /\ total_records = 250
    /\ Len(calls) = 2
    /\ Len(store) = 130

(* C4 as stated: however the run ends, the connection was opened once and  *)
(* closed once, and every write happens while it is open                   *)
C4_Claim ==
    /\ Finished => (opened = 1 /\ closed = 1)
    /\ calls # <<>> => opened = 1
    /\ mpc = "loop" => (opened = 1 /\ closed = 0)

(* C8: with zero records there is no insert_many call and no success       *)
(* message, and the run reports "No records found to import"; a success    *)
(* message is only printed after at least one batch was written            *)
C8_NoRecords ==
    /\ (mpc \in {"check", "loop", "close", "done"} /\ total_records = 0) =>
        /\ calls = <<>> /\ store = <<>>
        /\ Lines("Successfully imported") = <<>>
        /\ mpc # "loop"
        /\ mpc \in {"close", "done"} => Len(Lines("No records found to import")) = 1
    /\ Lines("Successfully imported") # <<>> =>
        /\ Len(calls) >= 1 /\ store # <<>>
        /\ Lines("No records found to import") = <<>>

C8_Witness ==
    /\ mpc = "done"
    /\ total_records = 0
    /\ out = <<Line("Parsing ADIF file", 0, 0), Line("Found", 0, 0),
               Line("No records found to import", 0, 0)>>
    /\ calls = <<>>

====
